---- MODULE Spec2Model ----
(***************************************************************************)
(* Verification model of the spork merge benchmark (scripts/benchmark).     *)
(*                                                                          *)
(* Several machines share this module, each with its own specification:     *)
(*   Spec        the trial merge: gitutils.merge_no_commit, saved_git_head  *)
(*               and checkout_clean acting on the repository                *)
(*   SpecReplay  the replay of one file merge: run.run_individual_file_merge*)
(*               and run._run_file_merge acting on a merge directory        *)
(*   SpecMine    scenario mining: gitutils.extract_merge_scenarios and its  *)
(*               callers in command.py                                      *)
(*   SpecExtract gitutils.extract_conflicting_files on one merge scenario   *)
(*   SpecDirs    fileutils.create_merge_dirs on a list of file merges       *)
(*   SpecCmp     analyze.Evaluations.at_least_as_good_as and the gate       *)
(*               command.run_merge_and_compare                              *)
(*   SpecEval    evaluate.evaluation_result on one merge result             *)
(***************************************************************************)
EXTENDS Integers, Sequences, FiniteSets, TLC

(***************************************************************************)
(* Bounds of the model.                                                     *)
(***************************************************************************)
\* number of revisions the repository of the trial-merge machine holds
NRev == 2

\* the value None of Python
None == "None"

(***************************************************************************)
(* State of the trial-merge machine: the repository and the position of     *)
(* the `with` block that runs on it.                                        *)
(***************************************************************************)
VARIABLES
    head,         \* repo.head.commit: the revision HEAD points at
    attached,     \* TRUE when HEAD is a symbolic ref to a branch
    index,        \* "clean" | "dirty" (staged by the user) | "merged" | "conflict"
    untracked,    \* untracked files and directories of the working tree
    mergeHead,    \* .git/MERGE_HEAD exists: a merge is in progress
    attributes,   \* .git/info/attributes exists
    driverOk,     \* the requested merge driver is in the global gitconfig
    pc,           \* position in the context manager
    kind,         \* which block runs: "merge_no_commit" | "saved_git_head"
    driver_config,\* merge_no_commit's driver_config argument is given
    left_sha,     \* merge_no_commit's arguments
    right_sha,
    saved_head,   \* saved_git_head's local
    exc,          \* the exception in flight, None when there is none
    success,      \* merge_no_commit's local
    entry,        \* the repository as it was when the block was entered
    restored,     \* saved_git_head's finally clause has run in this block
    bodyRaised,   \* the body of the with block raised
    observed      \* what the caller of the block sees once it has exited

gitVars == <<head, attached, index, untracked, mergeHead, attributes, driverOk,
             pc, kind, driver_config, left_sha, right_sha, saved_head, exc,
             success, entry, restored, bodyRaised, observed>>

(***************************************************************************)
(* State of the replay machine: one merge directory and the replay that     *)
(* run.run_individual_file_merge performs in it.                            *)
(***************************************************************************)
VARIABLES
    files,        \* the files of the merge directory
    rpc,          \* position in run_individual_file_merge / _run_file_merge
    merge_cmd,    \* the (sanitized) merge command being replayed
    mergeTimeout, \* <<gitutils.MERGE_TIMEOUT>>, << >> when the attribute is not set
    clock,        \* time.perf_counter() - start
    proc,         \* None, or the CompletedProcess of subprocess.run
    returncode,   \* proc.returncode, None when there is no proc
    timed_out,    \* _run_file_merge's local
    toolAlive,    \* the tool's process is alive
    childAlive,   \* a process the tool spawned (same process group) is alive
    wroteOutput,  \* this invocation of the tool wrote the output file
    outcome,      \* MergeResult.outcome, None while there is no result
    runtime,      \* MergeResult.runtime
    raised        \* the exception the replay ended in, None when it did not

replayVars == <<files, rpc, merge_cmd, mergeTimeout, clock, proc, returncode,
                timed_out, toolAlive, childAlive, wroteOutput, outcome, runtime,
                raised>>

(***************************************************************************)
(* State of the mining machine: the repository's history and the call of    *)
(* gitutils.extract_merge_scenarios that walks it.                          *)
(***************************************************************************)
VARIABLES
    history,                \* what the repository holds for each commit hash
    caller,                 \* who called: "direct" | "_run_file_merges"
    requested,              \* the list of hashes the caller was given
    non_trivial,            \* extract_merge_scenarios' parameters, as bound
    merge_commit_shas,
    expected_merge_commits, \* extract_merge_scenarios' locals
    merge_commits,
    merge_scenarios,
    mpc,                    \* position in extract_merge_scenarios
    replayed                \* expected commits whose file merges were replayed

mineVars == <<history, caller, requested, non_trivial, merge_commit_shas,
              expected_merge_commits, merge_commits, merge_scenarios, mpc,
              replayed>>

\* conflicting-file extraction (gitutils.extract_conflicting_files)
VARIABLES
    stdout,       \* the lines `git merge <right> --no-commit` printed
    locator,      \* the file merge locator driver left its results file
    auto_merged,  \* the automerged files not yet looked at
    file_merges,  \* extract_conflicting_files' result list
    xpc           \* position in extract_conflicting_files

extractVars == <<stdout, locator, auto_merged, file_merges, xpc>>

\* merge directories (fileutils.create_merge_dirs)
VARIABLES
    dir_merges,   \* the file merges given to create_merge_dirs
    created,      \* the directories below merge_dir_base, with what they hold
    merge_dirs,   \* create_merge_dirs' result list
    dpc,          \* position in create_merge_dirs
    draised       \* the exception create_merge_dirs raised, or None

dirVars == <<dir_merges, created, merge_dirs, dpc, draised>>

\* regression comparison (analyze.Evaluations, command.run_merge_and_compare)
VARIABLES
    new_data,     \* the data of the new Evaluations, sorted by merge directory
    ref_data,     \* the data of the reference Evaluations
    as_good,      \* what new.at_least_as_good_as(ref) came to
    exit_code,    \* the exit code of run_merge_and_compare
    cpc           \* position in run_merge_and_compare

cmpVars == <<new_data, ref_data, as_good, exit_code, cpc>>

\* evaluation of a merge result (evaluate.evaluation_result, gather.evaluation_result)
VARIABLES
    ev_module,    \* the module whose evaluation_result is called
    ev_outcome,   \* merge_result.outcome
    replayed_file,\* the lines of merge_result.merge_file
    evaluation,   \* the MergeEvaluation returned, or None
    epc           \* "idle", "returned" or "raised"

evalVars == <<ev_module, ev_outcome, replayed_file, evaluation, epc>>

\* mining the same repository again (gitutils.extract_merge_scenarios called
\* twice with the same arguments)
VARIABLES
    r_history,    \* what the repository holds for each commit hash
    r_head,       \* the commit HEAD points at; iter_commits walks back from it
    r_attached,   \* HEAD is a symbolic ref to a branch
    r_untracked,  \* the working tree holds untracked files
    r_attributes, \* .git/info/attributes exists
    r_driver,     \* the file merge locator driver is in the global gitconfig
    r_non_trivial,\* the arguments both calls are given
    r_shas,
    r_pending,    \* the local merge_commits: the merge commits still to visit
    r_expected,   \* the local expected_merge_commits
    r_scenarios,  \* the local merge_scenarios
    r_results,    \* what the calls made so far came to, in order
    r_pc          \* "idle" between calls, "loop" inside one

remineVars == <<r_history, r_head, r_attached, r_untracked, r_attributes,
                r_driver, r_non_trivial, r_shas, r_pending, r_expected,
                r_scenarios, r_results, r_pc>>

\* the MPI run (mpi.master on rank 0, mpi.worker on the other ranks)
VARIABLES
    mpi_merge_dirs,  \* master's merge_dirs
    NUM_WORKERS,     \* num_procs - 1
    master_pc,       \* "start", "send", "recv", "write", "written" or "raised"
    master_i,        \* the index of the loop master is in
    master_results,  \* master's results
    sent,            \* what master has sent: <<dest, proc_dirs>> in order
    mailbox,         \* per rank, the messages sent to it and not yet received
    worker_pc,       \* per rank: "recv", "run", "send", "done", "raised", "absent"
    worker_dirs,     \* per rank, worker's dirs
    worker_results,  \* per rank, worker's results
    worker_recvs,    \* per rank, the messages it has received
    worker_sends,    \* per rank, the destinations it has sent to
    written          \* the rows of results.csv

mpiVars == <<mpi_merge_dirs, NUM_WORKERS, master_pc, master_i, master_results,
             sent, mailbox, worker_pc, worker_dirs, worker_results,
             worker_recvs, worker_sends, written>>

\* the commands that run trial merges and builds on one working tree
\* (command.extract_merge_commits, extract_file_merge_metainfo, git_merge)
VARIABLES
    t_command,       \* the command that runs
    t_non_trivial,   \* args.non_trivial
    t_buildable,     \* args.buildable
    t_testable,      \* args.testable
    t_eval_dir,      \* args.evaluate is given (base_eval_dir)
    t_num_scenarios, \* how many merge scenarios the repository has
    t_num_drivers,   \* len(args.merge_drivers)
    t_head,          \* the commit HEAD of the working tree points at
    t_open,          \* the with blocks that are open on the repository, innermost last
    t_pc,            \* position of the command (of the generator, for git_merge)
    t_call,          \* "extract_conflicting_files" while that call is running
    t_ms,            \* the scenario the current loop is at
    t_commit,        \* the commit is_buildable's `all(...)` is at
    t_driver,        \* the merge driver run_git_merge is at
    t_pairs,         \* the results the open block of run_git_merge has yet to yield
    t_kept,          \* the scenarios the buildable filter kept
    t_rows           \* the results write_csv has taken from the generator

treeParams == <<t_command, t_non_trivial, t_buildable, t_testable, t_eval_dir,
                t_num_scenarios, t_num_drivers>>

treeVars == <<treeParams, t_head, t_open, t_pc, t_call, t_ms, t_commit, t_driver,
              t_pairs, t_kept, t_rows>>

\* the per-record comparison (analyze.Evaluations.log_diffs)
VARIABLES
    l_new,        \* the evaluations of the new run, as given to Evaluations(...)
    l_ref,        \* the evaluations read from the reference file
    l_self_data,  \* new_evaluations.data
    l_ref_data,   \* old_evaluations.data
    l_log,        \* the records logged, in order
    l_i,          \* how many pairs of zip(self.data, ref.data) are done
    l_pc          \* "idle", "log_diffs" or "returned"

logVars == <<l_new, l_ref, l_self_data, l_ref_data, l_log, l_i, l_pc>>

\* the machines of the first seven specifications, and the later ones
firstVars == <<gitVars, replayVars, mineVars, extractVars, dirVars, cmpVars,
              evalVars>>
laterVars == <<remineVars, mpiVars, treeVars, logVars>>

vars == <<firstVars, laterVars>>

\* the variables a machine leaves alone
notGit == <<replayVars, mineVars, extractVars, dirVars, cmpVars,
    evalVars,
    laterVars>>
notReplay == <<gitVars, mineVars, extractVars, dirVars, cmpVars,
    evalVars,
    laterVars>>
notMine == <<gitVars, replayVars, extractVars, dirVars, cmpVars,
    evalVars,
    laterVars>>
notExtract == <<gitVars, replayVars, mineVars, dirVars, cmpVars,
    evalVars,
    laterVars>>
notDirs == <<gitVars, replayVars, mineVars, extractVars, cmpVars,
    evalVars,
    laterVars>>
notCmp == <<gitVars, replayVars, mineVars, extractVars, dirVars,
    evalVars,
    laterVars>>
notEval == <<gitVars, replayVars, mineVars, extractVars, dirVars, cmpVars,
    laterVars>>

notRemine == <<firstVars, mpiVars, treeVars, logVars>>
notMpi == <<firstVars, remineVars, treeVars, logVars>>
notTree == <<firstVars, remineVars, mpiVars, logVars>>
notLog == <<firstVars, remineVars, mpiVars, treeVars>>

(***************************************************************************)
(* The trial-merge machine.                                                 *)
(***************************************************************************)
Revs == 1..NRev

\* untracked paths: the user's own, the file merge locator's output
\* (gitutils.FILE_MERGE_LOCATOR_OUTPUT_NAME), Maven's build directory
UserFiles == {"notes.txt"}
DriverFiles == {".filemergelocator_results"}
BuildFiles == {"target"}

NoEntry == [head |-> 0, attached |-> FALSE, index |-> "clean", untracked |-> {}]

GitInit ==
    /\ head \in Revs
    /\ attached \in BOOLEAN
    /\ index \in {"clean", "dirty"}
    /\ untracked \in SUBSET UserFiles
    /\ mergeHead = FALSE
    /\ attributes \in BOOLEAN
    /\ driverOk \in BOOLEAN
    /\ pc = "idle"
    /\ kind = None
    /\ driver_config = FALSE
    /\ left_sha = 0
    /\ right_sha = 0
    /\ saved_head = 0
    /\ exc = None
    /\ success = FALSE
    /\ entry = NoEntry
    /\ restored = FALSE
    /\ bodyRaised = FALSE
    /\ observed = None

\* checkout_clean without `git clean -xfd`
checkout_no_clean(commitish) ==
    /\ untracked' = untracked
    /\ head' = commitish
    /\ attached' = FALSE
    /\ index' = "clean"
    /\ mergeHead' = FALSE

\* gitutils.checkout_clean: `git clean -xfd` removes every untracked (and
\* ignored) path, `git checkout <hexsha> --force` detaches HEAD at the commit,
\* discards staged and unmerged entries and ends a merge in progress
checkout_clean(commitish) ==
    /\ untracked' = {}
    /\ head' = commitish
    /\ attached' = FALSE
    /\ index' = "clean"
    /\ mergeHead' = FALSE

\* Entering `with merge_no_commit(repo, l, r, dc)` or `with saved_git_head(repo)`:
\* saved_git_head reads repo.head.commit.hexsha
Enter(k, l, r, dc) ==
    /\ pc = "idle"
    /\ UNCHANGED notGit
    /\ kind' = k
    /\ left_sha' = l
    /\ right_sha' = r
    /\ driver_config' = dc
    /\ saved_head' = head
    /\ entry' = [head |-> head, attached |-> attached, index |-> index,
                 untracked |-> untracked]
    /\ pc' = IF k = "merge_no_commit" THEN "checkout_left" ELSE "body"
    /\ exc' = None
    /\ success' = FALSE
    /\ restored' = FALSE
    /\ bodyRaised' = FALSE
    /\ observed' = None
    /\ UNCHANGED <<head, attached, index, untracked, mergeHead, attributes, driverOk>>

\* merge_no_commit: checkout_clean(repo, left_sha)
CheckoutLeft ==
    /\ pc = "checkout_left"
    /\ UNCHANGED notGit
    /\ checkout_clean(left_sha)
    /\ pc' = "set_driver"
    /\ UNCHANGED <<attributes, driverOk, kind, driver_config, left_sha, right_sha,
                   saved_head, exc, success, entry, restored, bodyRaised, observed>>

\* merge_no_commit: `if driver_config: set_merge_driver(...)`; set_merge_driver
\* raises EnvironmentError when the driver is not configured; the bare except
\* of merge_no_commit logs and re-raises it into saved_git_head
SetMergeDriver ==
    /\ pc = "set_driver"
    /\ UNCHANGED notGit
    /\ IF ~driver_config
       THEN /\ pc' = "merge"
            /\ UNCHANGED <<attributes, exc>>
       ELSE IF driverOk
       THEN /\ attributes' = TRUE
            /\ pc' = "merge"
            /\ UNCHANGED exc
       ELSE /\ exc' = "EnvironmentError"
            /\ pc' = "restore"
            /\ UNCHANGED attributes
    /\ UNCHANGED <<head, attached, index, untracked, mergeHead, driverOk, kind,
                   driver_config, left_sha, right_sha, saved_head, success, entry,
                   restored, bodyRaised, observed>>

\* what `git merge <right_sha> --no-commit` may do
MergeResults == {"merged", "conflict", "fast-forward", "up-to-date"}

\* merge_no_commit: repo.git.merge(right_sha, "--no-commit"). A conflict is
\* a GitCommandError, caught: success = False. A true merge leaves the index
\* merged or unmerged and MERGE_HEAD in place; a fast-forward moves the
\* (detached) HEAD to right_sha; the file merge locator driver writes its
\* results file into the working tree.
GitMerge(result, out) ==
    /\ pc = "merge"
    /\ UNCHANGED notGit
    /\ success' = (result # "conflict")
    /\ index' = CASE result = "merged" -> "merged"
                  [] result = "conflict" -> "conflict"
                  [] OTHER -> index
    /\ mergeHead' = (result \in {"merged", "conflict"})
    /\ head' = IF result = "fast-forward" THEN right_sha ELSE head
    /\ untracked' = untracked \cup out
    /\ pc' = "body"
    /\ UNCHANGED <<attached, attributes, driverOk, kind, driver_config,
                   left_sha, right_sha, saved_head, exc, entry, restored,
                   bodyRaised, observed>>

\* The body of the with block (the code between `yield` and the exit):
\* it may check another revision out (run.is_buildable, run.is_testable),
\* build (javautils.mvn_compile leaves target/), and it may raise.
Body(rev, built, raises) ==
    /\ pc = "body"
    /\ UNCHANGED notGit
    /\ IF kind = "saved_git_head"
       THEN /\ head' = rev
            /\ attached' = FALSE
            /\ index' = "clean"
       ELSE UNCHANGED <<head, attached, index>>
    /\ untracked' = untracked \cup built
    /\ exc' = IF raises THEN "BodyError" ELSE None
    /\ bodyRaised' = raises
    /\ pc' = "restore"
    /\ UNCHANGED <<mergeHead, attributes, driverOk, kind, driver_config, left_sha,
                   right_sha, saved_head, success, entry, restored, observed>>

\* saved_git_head without its finally clause: an exception leaves at once
SavedGitHeadExit_RaiseFirst ==
    /\ pc = "restore"
    /\ UNCHANGED notGit
    /\ IF exc = None
       THEN /\ checkout_clean(saved_head)
            /\ restored' = TRUE
       ELSE UNCHANGED <<head, attached, index, untracked, mergeHead, restored>>
    /\ IF kind = "merge_no_commit"
       THEN /\ pc' = "finally"
            /\ UNCHANGED observed
       ELSE /\ pc' = "exited"
            /\ observed' = exc
    /\ UNCHANGED <<attributes, driverOk, kind, driver_config, left_sha, right_sha,
                   saved_head, exc, success, entry, bodyRaised>>

\* saved_git_head: `except BaseException as e: exc = e` and
\* `finally: checkout_clean(repo, saved_head); if exc is not None: raise exc`
SavedGitHeadExit ==
    /\ pc = "restore"
    /\ UNCHANGED notGit
    /\ checkout_clean(saved_head)
    /\ restored' = TRUE
    /\ IF kind = "merge_no_commit"
       THEN /\ pc' = "finally"
            /\ UNCHANGED observed
       ELSE /\ pc' = "exited"
            /\ observed' = exc
    /\ UNCHANGED <<attributes, driverOk, kind, driver_config, left_sha, right_sha,
                   saved_head, exc, success, entry, bodyRaised>>

\* merge_no_commit's finally clause: clear_merge_driver unlinks the
\* attributes file (FileNotFoundError when it is not there, which replaces
\* the exception in flight and skips the reset), then `git reset --merge`
MergeNoCommitFinally ==
    /\ pc = "finally"
    /\ UNCHANGED notGit
    /\ IF driver_config /\ ~attributes
       THEN /\ exc' = "FileNotFoundError"
            /\ UNCHANGED <<attributes, index, mergeHead>>
       ELSE /\ attributes' = IF driver_config THEN FALSE ELSE attributes
            /\ index' = IF index \in {"merged", "conflict"} THEN "clean" ELSE index
            /\ mergeHead' = FALSE
            /\ UNCHANGED exc
    /\ observed' = exc'
    /\ pc' = "exited"
    /\ UNCHANGED <<head, attached, untracked, driverOk, kind, driver_config,
                   left_sha, right_sha, saved_head, success, entry, restored,
                   bodyRaised>>

\* The caller goes on after the block; the next block may be entered
Leave ==
    /\ pc = "exited"
    /\ UNCHANGED notGit
    /\ pc' = "idle"
    /\ UNCHANGED <<head, attached, index, untracked, mergeHead, attributes,
                   driverOk, kind, driver_config, left_sha, right_sha, saved_head,
                   exc, success, entry, restored, bodyRaised, observed>>

GitNext ==
    \/ \E l, r \in Revs, dc \in BOOLEAN : Enter("merge_no_commit", l, r, dc)
    \/ Enter("saved_git_head", 0, 0, FALSE)
    \/ CheckoutLeft
    \/ SetMergeDriver
    \/ \E result \in MergeResults, out \in SUBSET DriverFiles : GitMerge(result, out)
    \/ \E rev \in Revs, built \in SUBSET BuildFiles, raises \in BOOLEAN :
          Body(rev, built, raises)
    \/ SavedGitHeadExit
    \/ MergeNoCommitFinally
    \/ Leave

(***************************************************************************)
(* The replay machine.                                                      *)
(***************************************************************************)
\* largest timeout configured, and longest time the kill of a timed-out
\* tool takes beyond the timeout
MaxTimeout == 2
MaxOvershoot == 1

\* The values of gitutils.MERGE_TIMEOUT. run._run_file_merge reads the
\* attribute, gitutils.py does not set it: it is configuration, a number of
\* time units, or it is missing.
Timeouts == 1..MaxTimeout

\* the value read by `timeout=gitutils.MERGE_TIMEOUT`
MERGE_TIMEOUT == mergeTimeout[1]

\* the merge commands replayed
MergeCmds == {"spork", "jdime"}

\* fileutils.NORMALIZED_FILE_SUFFIX
NORMALIZED_FILE_SUFFIX == "_normalized.java"

\* A file name is its stem and the rest. No stem of the model is a proper
\* prefix of another, so str.startswith(prefix) is equality of stems.
FileName(stem, rest) == [stem |-> stem, rest |-> rest]

startswith(name, prefix) == name.stem = prefix

\* fileutils.create_merge_dirs writes these four
MergeDirFiles == {FileName("Base", ".java"), FileName("Left", ".java"),
                  FileName("Right", ".java"), FileName("Expected", ".java")}

\* run_individual_file_merge: merge_file = merge_dir / f"{sanitized_merge_cmd}.java"
merge_file(cmd) == FileName(cmd, ".java")

\* fileutils.copy_normalized: dst = src.parent / (src.stem + NORMALIZED_FILE_SUFFIX)
normalized(name) == FileName(name.stem, NORMALIZED_FILE_SUFFIX)

\* run_individual_file_merge.get_filename: the assertion len(matches) == 1
get_filename_ok(prefix) ==
    Cardinality({name \in files : startswith(name, prefix)}) = 1

ReplayStart(timeout) ==
    /\ files = MergeDirFiles
    /\ rpc = "idle"
    /\ merge_cmd = None
    /\ mergeTimeout = timeout
    /\ clock = 0
    /\ proc = None
    /\ returncode = None
    /\ timed_out = FALSE
    /\ toolAlive = FALSE
    /\ childAlive = FALSE
    /\ wroteOutput = FALSE
    /\ outcome = None
    /\ runtime = None
    /\ raised = None

ReplayInit ==
    \/ ReplayStart(<< >>)
    \/ \E timeout \in Timeouts : ReplayStart(<<timeout>>)

\* run_individual_file_merge up to the call of _run_file_merge, and
\* _run_file_merge up to subprocess.run: the four files are looked up by
\* prefix (AssertionError unless exactly one matches), start is taken
StartReplay(cmd) ==
    /\ rpc = "idle"
    /\ UNCHANGED notReplay
    /\ merge_cmd' = cmd
    /\ clock' = 0
    /\ proc' = None
    /\ returncode' = None
    /\ timed_out' = FALSE
    /\ wroteOutput' = FALSE
    /\ outcome' = None
    /\ runtime' = None
    /\ IF \A prefix \in {"Base", "Left", "Right", "Expected"} : get_filename_ok(prefix)
       THEN /\ rpc' = "spawn"
            /\ raised' = None
       ELSE /\ rpc' = "raised"
            /\ raised' = "AssertionError"
    /\ UNCHANGED <<files, mergeTimeout, toolAlive, childAlive>>

\* the call of subprocess.run raises before the tool runs: the tool cannot
\* be started (OSError), or gitutils.MERGE_TIMEOUT is not set
\* (AttributeError): `except: proc = None`
CannotStart ==
    /\ rpc = "spawn"
    /\ UNCHANGED notReplay
    /\ proc' = None
    /\ rpc' = "classify"
    /\ UNCHANGED <<files, merge_cmd, mergeTimeout, clock, returncode, timed_out,
                   toolAlive, childAlive, wroteOutput, outcome, runtime, raised>>

\* subprocess.run starts the tool
ToolStarts ==
    /\ rpc = "spawn"
    /\ UNCHANGED notReplay
    /\ mergeTimeout # << >>
    /\ toolAlive' = TRUE
    /\ rpc' = "running"
    /\ UNCHANGED <<files, merge_cmd, mergeTimeout, clock, proc, returncode,
                   timed_out, childAlive, wroteOutput, outcome, runtime, raised>>

\* time passes while subprocess.run waits for the tool
Tick ==
    /\ rpc = "running"
    /\ UNCHANGED notReplay
    /\ clock < MERGE_TIMEOUT
    /\ clock' = clock + 1
    /\ UNCHANGED <<files, rpc, merge_cmd, mergeTimeout, proc, returncode, timed_out,
                   toolAlive, childAlive, wroteOutput, outcome, runtime, raised>>

\* the tool forks a child (a JVM, a helper): it is in the tool's process group
ToolSpawnsChild ==
    /\ rpc = "running"
    /\ UNCHANGED notReplay
    /\ ~childAlive
    /\ childAlive' = TRUE
    /\ UNCHANGED <<files, rpc, merge_cmd, mergeTimeout, clock, proc, returncode,
                   timed_out, toolAlive, wroteOutput, outcome, runtime, raised>>

\* the child ends by itself
ChildExits ==
    /\ rpc = "running"
    /\ UNCHANGED notReplay
    /\ childAlive
    /\ childAlive' = FALSE
    /\ UNCHANGED <<files, rpc, merge_cmd, mergeTimeout, clock, proc, returncode,
                   timed_out, toolAlive, wroteOutput, outcome, runtime, raised>>

\* the tool writes (or starts to write) `-o <merge_file>`
ToolWritesOutput ==
    /\ rpc = "running"
    /\ UNCHANGED notReplay
    /\ ~wroteOutput
    /\ files' = files \cup {merge_file(merge_cmd)}
    /\ wroteOutput' = TRUE
    /\ UNCHANGED <<rpc, merge_cmd, mergeTimeout, clock, proc, returncode, timed_out,
                   toolAlive, childAlive, outcome, runtime, raised>>

\* the tool exits within the timeout: subprocess.run returns a CompletedProcess
ToolExits(rc) ==
    /\ rpc = "running"
    /\ UNCHANGED notReplay
    /\ clock < MERGE_TIMEOUT
    /\ toolAlive' = FALSE
    /\ proc' = "CompletedProcess"
    /\ returncode' = rc
    /\ rpc' = "classify"
    /\ UNCHANGED <<files, merge_cmd, mergeTimeout, clock, timed_out, childAlive,
                   wroteOutput, outcome, runtime, raised>>

\* the timeout of subprocess.run expires: it kills the process it started
\* (Popen.kill, the direct child only), waits for it and raises
\* TimeoutExpired; `except subprocess.TimeoutExpired: timed_out = True; proc = None`
Timeout(overshoot) ==
    /\ rpc = "running"
    /\ UNCHANGED notReplay
    /\ clock = MERGE_TIMEOUT
    /\ toolAlive' = FALSE
    /\ clock' = clock + overshoot
    /\ timed_out' = TRUE
    /\ proc' = None
    /\ rpc' = "classify"
    /\ UNCHANGED <<files, merge_cmd, mergeTimeout, returncode, childAlive,
                   wroteOutput, outcome, runtime, raised>>

\* _run_file_merge with the exit code looked at before the output file
Classify_ExitCodeFirst ==
    /\ rpc = "classify"
    /\ UNCHANGED notReplay
    /\ runtime' = IF ~timed_out THEN clock ELSE MERGE_TIMEOUT
    /\ IF proc = None \/ merge_file(merge_cmd) \notin files
       THEN /\ outcome' = IF proc # None /\ returncode # 0 THEN "conflict" ELSE "fail"
            /\ rpc' = "returned"
            /\ UNCHANGED raised
       ELSE /\ outcome' = IF returncode # 0 THEN "conflict" ELSE "success"
            /\ rpc' = "returned"
            /\ UNCHANGED raised
    /\ UNCHANGED <<files, merge_cmd, mergeTimeout, clock, proc, returncode,
                   timed_out, toolAlive, childAlive, wroteOutput>>

\* _run_file_merge from `runtime = ...` on, and the MergeResult that
\* run_individual_file_merge builds: Fail without an output file, else
\* `proc.returncode` is read (AttributeError when proc is None)
Classify ==
    /\ rpc = "classify"
    /\ UNCHANGED notReplay
    /\ IF merge_file(merge_cmd) \notin files
       THEN /\ outcome' = "fail"
            /\ runtime' = IF ~timed_out THEN clock ELSE MERGE_TIMEOUT
            /\ rpc' = "returned"
            /\ UNCHANGED raised
       ELSE IF proc = None
       THEN /\ raised' = "AttributeError"
            /\ rpc' = "raised"
            /\ UNCHANGED <<outcome, runtime>>
       ELSE /\ outcome' = IF returncode # 0 THEN "conflict" ELSE "success"
            /\ runtime' = IF ~timed_out THEN clock ELSE MERGE_TIMEOUT
            /\ rpc' = "returned"
            /\ UNCHANGED raised
    /\ UNCHANGED <<files, merge_cmd, mergeTimeout, clock, proc, returncode,
                   timed_out, toolAlive, childAlive, wroteOutput>>

\* evaluate.evaluation_result on the MergeResult (run_and_evaluate):
\* copy_normalized(expected) and, unless the outcome is Fail,
\* copy_normalized(replayed) add the normalized copies to the directory
Evaluate ==
    /\ rpc = "returned"
    /\ UNCHANGED notReplay
    /\ files' = files \cup {normalized(FileName("Expected", ".java"))}
                      \cup (IF outcome # "fail"
                            THEN {normalized(merge_file(merge_cmd))} ELSE {})
    /\ rpc' = "idle"
    /\ UNCHANGED <<merge_cmd, mergeTimeout, clock, proc, returncode, timed_out,
                   toolAlive, childAlive, wroteOutput, outcome, runtime, raised>>

\* the result is used without evaluation (run.runtime_benchmark):
\* `assert ms.outcome != conts.MergeOutcome.FAIL` ends the benchmark in
\* AssertionError, else the next replay may start
NextReplay ==
    /\ rpc = "returned"
    /\ UNCHANGED notReplay
    /\ IF outcome = "fail"
       THEN /\ rpc' = "benchmark_raised"
            /\ raised' = "AssertionError"
       ELSE /\ rpc' = "idle"
            /\ UNCHANGED raised
    /\ UNCHANGED <<files, merge_cmd, mergeTimeout, clock, proc, returncode,
                   timed_out, toolAlive, childAlive, wroteOutput, outcome, runtime>>

ReplayNext ==
    \/ \E cmd \in MergeCmds : StartReplay(cmd)
    \/ CannotStart
    \/ ToolStarts
    \/ Tick
    \/ ToolSpawnsChild
    \/ ChildExits
    \/ ToolWritesOutput
    \/ \E rc \in {0, 1} : ToolExits(rc)
    \/ \E overshoot \in 0..MaxOvershoot : Timeout(overshoot)
    \/ Classify
    \/ Evaluate
    \/ NextReplay

(***************************************************************************)
(* The mining machine.                                                      *)
(***************************************************************************)
\* number of commits in the history of the mined repository
NCommits == 3

\* the commits repo.iter_commits() yields, by hash
MineCommits == 1..NCommits

\* a hash that names no commit of the history
UnknownHash == 0

Hashes == MineCommits \cup {UnknownHash}

\* What the repository holds for a commit: one parent, three parents, or
\* two parents that have no merge base, two merge bases, or one merge base
\* with either no file or some file that needs a three-way content merge
Kinds == {"single", "octopus", "nobase", "multibase", "trivial", "conflicting"}

ParentId(c, i) == <<"parent", c, i>>
BaseId(c, i) == <<"base", c, i>>

\* commit.parents
parents(c) ==
    CASE history[c] = "single" -> <<ParentId(c, 1)>>
      [] history[c] = "octopus" -> <<ParentId(c, 1), ParentId(c, 2), ParentId(c, 3)>>
      [] OTHER -> <<ParentId(c, 1), ParentId(c, 2)>>

\* repo.merge_base(*merge.parents, all=True)
merge_base(c) ==
    CASE history[c] = "nobase" -> <<>>
      [] history[c] = "multibase" -> <<BaseId(c, 1), BaseId(c, 2)>>
      [] OTHER -> <<BaseId(c, 1)>>

\* the file merges gitutils.extract_conflicting_files finds for a scenario
extract_conflicting_files(scenario) ==
    IF history[scenario.expected] = "conflicting"
    THEN {<<"file", scenario.expected>>}
    ELSE {}

\* repo.iter_commits(): newest first
iter_commits == [i \in 1..NCommits |-> NCommits + 1 - i]

\* an Optional[List[str]] argument: not given (None), or the hashes it lists
ShaLists == {[given |-> FALSE, shas |-> {}]}
                \cup {[given |-> TRUE, shas |-> S] : S \in SUBSET Hashes}

\* Python's truth value of an Optional[List[str]]
truthy(list) == list.given /\ list.shas # {}

\* conts.MergeScenario(merge, base[0], left, right)
MergeScenario(expected, base, left, right) ==
    [expected |-> expected, base |-> base, left |-> left, right |-> right]

Range(seq) == {seq[i] : i \in DOMAIN seq}

MineInit ==
    /\ history \in [MineCommits -> Kinds]
    /\ caller = None
    /\ requested = [given |-> FALSE, shas |-> {}]
    /\ non_trivial = FALSE
    /\ merge_commit_shas = [given |-> FALSE, shas |-> {}]
    /\ expected_merge_commits = {}
    /\ merge_commits = <<>>
    /\ merge_scenarios = <<>>
    /\ mpc = "idle"
    /\ replayed = {}

\* extract_merge_scenarios: `len(commit.parents) == 2`
is_merge_commit(c) == Len(parents(c)) = 2

\* extract_merge_scenarios up to its loop: the two-parent commits, restricted
\* to merge_commit_shas when that is not None
extract_merge_scenarios(who, list, nt, shas) ==
    /\ mpc = "idle"
    /\ UNCHANGED notMine
    /\ caller' = who
    /\ requested' = list
    /\ non_trivial' = nt
    /\ merge_commit_shas' = shas
    /\ expected_merge_commits' = IF shas.given THEN shas.shas ELSE {}
    /\ merge_commits' =
          LET two == SelectSeq(iter_commits, is_merge_commit)
              wanted(c) == c \in shas.shas
          IN  IF shas.given THEN SelectSeq(two, wanted) ELSE two
    /\ merge_scenarios' = <<>>
    /\ mpc' = "loop"
    /\ UNCHANGED <<history, replayed>>

\* command.extract_merge_commits, extract_file_merge_metainfo, git_merge:
\* extract_merge_scenarios(repo, non_trivial=..., merge_commit_shas=...)
CallDirect(nt, list) ==
    extract_merge_scenarios("direct", list, nt, list)

\* command._run_file_merges:
\* gitutils.extract_merge_scenarios(repo, expected_merge_commit_shas): the
\* second positional parameter is non_trivial, merge_commit_shas stays None
CallFromRunFileMerges(list) ==
    extract_merge_scenarios("_run_file_merges", list, truthy(list),
                            [given |-> FALSE, shas |-> {}])

\* the loop body with left and right taken in the other order
scenario_of_Swapped(merge) ==
    MergeScenario(merge, merge_base(merge)[1], parents(merge)[2], parents(merge)[1])

\* `left, right = merge.parents` and
\* `scenario = conts.MergeScenario(merge, base[0], left, right)`
scenario_of(merge) ==
    MergeScenario(merge, merge_base(merge)[1], parents(merge)[1], parents(merge)[2])

\* the check of the merge base that lets several merge bases through
skip_base_OnlyMissing(base) == base = <<>>

\* `if not base: ... continue` / `elif len(base) > 1: ... continue`
skip_base(base) == base = <<>> \/ Len(base) > 1

\* one iteration of `for merge in merge_commits`
LoopStep ==
    /\ mpc = "loop"
    /\ UNCHANGED notMine
    /\ merge_commits # <<>>
    /\ LET merge == Head(merge_commits)
           base == merge_base(merge)
       IN  IF skip_base(base)
           THEN UNCHANGED <<expected_merge_commits, merge_scenarios>>
           ELSE IF non_trivial /\ extract_conflicting_files(scenario_of(merge)) = {}
           THEN UNCHANGED <<expected_merge_commits, merge_scenarios>>
           ELSE /\ expected_merge_commits' = expected_merge_commits \ {merge}
                /\ merge_scenarios' = Append(merge_scenarios, scenario_of(merge))
    /\ merge_commits' = Tail(merge_commits)
    /\ UNCHANGED <<history, caller, requested, non_trivial, merge_commit_shas, mpc,
                   replayed>>

\* the end of extract_merge_scenarios that never raises
Finish_NeverRaise ==
    /\ mpc = "loop"
    /\ UNCHANGED notMine
    /\ merge_commits = <<>>
    /\ mpc' = "returned"
    /\ UNCHANGED <<history, caller, requested, non_trivial, merge_commit_shas,
                   expected_merge_commits, merge_commits, merge_scenarios, replayed>>

\* `if expected_merge_commits: raise RuntimeError("Missing merge commits...")`
\* and `return merge_scenarios`
Finish ==
    /\ mpc = "loop"
    /\ UNCHANGED notMine
    /\ merge_commits = <<>>
    /\ mpc' = IF expected_merge_commits # {} THEN "raised" ELSE "returned"
    /\ UNCHANGED <<history, caller, requested, non_trivial, merge_commit_shas,
                   expected_merge_commits, merge_commits, merge_scenarios, replayed>>

\* command._run_file_merges after mining: extract_all_conflicting_files over
\* the mined scenarios, create_merge_dirs, and the replay of every file merge
ReplayMined ==
    /\ mpc = "returned"
    /\ UNCHANGED notMine
    /\ caller = "_run_file_merges"
    /\ replayed' = {s.expected : s \in {t \in Range(merge_scenarios) :
                                          extract_conflicting_files(t) # {}}}
    /\ mpc' = "replayed"
    /\ UNCHANGED <<history, caller, requested, non_trivial, merge_commit_shas,
                   expected_merge_commits, merge_commits, merge_scenarios>>

MineNext ==
    \/ \E nt \in BOOLEAN, list \in ShaLists : CallDirect(nt, list)
    \/ \E list \in ShaLists : CallFromRunFileMerges(list)
    \/ LoopStep
    \/ Finish
    \/ ReplayMined

(***************************************************************************)
(* The extraction machine: gitutils.extract_conflicting_files on one merge  *)
(* scenario.                                                                *)
(***************************************************************************)
\* most lines the trial merge prints
MaxLines == 3

\* the files of the scenario, and the conflict types git reports
ScenarioFiles == {"A.java", "B.java"}
ConflictTypes == {"content", "modify/delete"}

\* A line of text: what stands before its first word, the word, and for a
\* CONFLICT line the type in parentheses, else the file named.
Line(lead, word, type, file) ==
    [lead |-> lead, word |-> word, type |-> type, file |-> file]

\* the lines git prints: `Auto-merging <file>` and
\* `CONFLICT (<type>): ... <file>`
GitLines ==
    {Line("", "Auto-merging", "", f) : f \in ScenarioFiles}
        \cup {Line("", "CONFLICT", t, f) : t \in ConflictTypes, f \in ScenarioFiles}

RECURSIVE SeqsUpTo(_, _)
SeqsUpTo(S, n) ==
    IF n = 0 THEN {<< >>}
    ELSE LET shorter == SeqsUpTo(S, n - 1)
         IN  shorter \cup {Append(q, x) : q \in {r \in shorter : Len(r) = n - 1}, x \in S}

\* git merge exits non-zero, GitPython raises GitCommandError, when a
\* conflict is left
merge_failed(out) == \E i \in 1..Len(out) : out[i].word = "CONFLICT"

\* str(exc) of the GitCommandError (merge_no_commit: `output = str(exc)`):
\* "Cmd('git') failed due to: exit code(1)", "  cmdline: git merge ...",
\* then "  stdout: '" followed by what git printed, so the first line git
\* printed does not begin its line of the text.
str_exc(out) ==
    <<Line("", "Cmd", "", ""), Line("  ", "cmdline:", "", "")>>
        \o [i \in 1..Len(out) |->
              IF i = 1 THEN [out[i] EXCEPT !.lead = "  stdout: '"] ELSE out[i]]

\* the second element of what merge_no_commit yields
merge_output(out) == IF merge_failed(out) THEN str_exc(out) ELSE out

\* CONFLICT_PATTERN = "(?m)^CONFLICT \((.*?)\):" matches at a line's start
matches_conflict_pattern(line) == line.lead = "" /\ line.word = "CONFLICT"

\* gitutils._contains_non_content_conflict
contains_non_content_conflict(output) ==
    \E i \in 1..Len(output) :
        matches_conflict_pattern(output[i]) /\ output[i].type # "content"

\* line.strip().startswith("Auto-merging"): strip removes white space only
is_automerging(line) ==
    line.word = "Auto-merging" /\ line.lead \in {"", "  "}

RECURSIVE extract_automerged_files(_)
extract_automerged_files(output) ==
    IF output = << >> THEN << >>
    ELSE (IF is_automerging(Head(output)) THEN <<Head(output).file>> ELSE << >>)
            \o extract_automerged_files(Tail(output))

Revisions == {"expected", "base", "left", "right"}

\* conts.FileMerge; of its blobs the model keeps the path and which of
\* them hold a line starting with a conflict marker
FileMerge(file, marked) == [file |-> file, marked |-> marked]

\* gitutils._has_conflict_marker
has_conflict_marker(file_merge) == file_merge.marked # {}

ExtractInit ==
    /\ stdout \in SeqsUpTo(GitLines, MaxLines)
    /\ locator \in BOOLEAN
    /\ auto_merged = << >>
    /\ file_merges = << >>
    /\ xpc = "idle"

\* extract_conflicting_files up to the loop: the trial merge, the test for
\* a non-content conflict (`return []`), extract_automerged_files, and the
\* test for the locator's results file
TrialMerge ==
    /\ xpc = "idle"
    /\ UNCHANGED notExtract
    /\ file_merges' = << >>
    /\ IF contains_non_content_conflict(merge_output(stdout))
       THEN /\ auto_merged' = << >>
            /\ xpc' = "returned"
       ELSE /\ auto_merged' = IF locator
                              THEN extract_automerged_files(merge_output(stdout))
                              ELSE << >>
            /\ xpc' = "loop"
    /\ UNCHANGED <<stdout, locator>>

\* one round of `for file in auto_merged`: the id the driver left in the
\* file is looked up in the locator's results, the three blobs in their
\* commits, the expected blob by path in the merge commit
ExtractFile(known, found, expectedFound, marked) ==
    /\ xpc = "loop"
    /\ UNCHANGED notExtract
    /\ auto_merged # << >>
    /\ auto_merged' = Tail(auto_merged)
    /\ file_merges' = IF known /\ found /\ expectedFound
                      THEN Append(file_merges, FileMerge(Head(auto_merged), marked))
                      ELSE file_merges
    /\ UNCHANGED <<stdout, locator, xpc>>

\* `return file_merges`
ExtractReturn ==
    /\ xpc = "loop"
    /\ UNCHANGED notExtract
    /\ auto_merged = << >>
    /\ xpc' = "returned"
    /\ UNCHANGED <<stdout, locator, auto_merged, file_merges>>

ExtractNext ==
    \/ TrialMerge
    \/ \E known, found, expectedFound \in BOOLEAN, marked \in SUBSET Revisions :
          ExtractFile(known, found, expectedFound, marked)
    \/ ExtractReturn

(***************************************************************************)
(* The directory machine: fileutils.create_merge_dirs on a list of file     *)
(* merges.                                                                  *)
(***************************************************************************)
\* most file merges given to create_merge_dirs, and the merge commits they
\* come from
MaxMerges == 2
NScenarios == 2

\* paths of blobs in a commit's tree: directory and name
BlobPaths == {[dir |-> "a", name |-> "Foo.java"],
              [dir |-> "b", name |-> "Foo.java"],
              [dir |-> "a", name |-> "Bar.java"]}

\* A file merge as create_merge_dirs reads it: the hash of the merge commit
\* (file_merge.from_merge_scenario.expected.hexsha), the expected blob's
\* path, and whether there is a base blob
DirFileMerges ==
    [merge_commit : 1..NScenarios, expected : BlobPaths, base : BOOLEAN]

\* the same file of the same scenario
same_file(a, b) == a.merge_commit = b.merge_commit /\ a.expected = b.expected

\* merge_dir_base / merge_commit.hexsha / result_blob.name
merge_dir_of(file_merge) ==
    [commit |-> file_merge.merge_commit, name |-> file_merge.expected.name]

DirInit ==
    /\ dir_merges \in {q \in SeqsUpTo(DirFileMerges, MaxMerges) :
                          \A i, j \in 1..Len(q) : same_file(q[i], q[j]) => i = j}
    /\ created = {}
    /\ merge_dirs = << >>
    /\ dpc = "loop"
    /\ draised = None

\* one round of `for file_merge in file_merges`: merge_dir.mkdir(parents=True)
\* raises FileExistsError when the directory exists; else Expected, Left,
\* Right and Base (empty when there is no base blob) are written
CreateMergeDir ==
    /\ dpc = "loop"
    /\ UNCHANGED notDirs
    /\ Len(merge_dirs) < Len(dir_merges)
    /\ LET file_merge == dir_merges[Len(merge_dirs) + 1]
           merge_dir == merge_dir_of(file_merge)
       IN  IF \E d \in created : d.path = merge_dir
           THEN /\ draised' = "FileExistsError"
                /\ dpc' = "raised"
                /\ UNCHANGED <<created, merge_dirs>>
           ELSE /\ created' = created \cup {[path |-> merge_dir, holds |-> file_merge]}
                /\ merge_dirs' = Append(merge_dirs, merge_dir)
                /\ UNCHANGED <<dpc, draised>>
    /\ UNCHANGED dir_merges

\* `return merge_dirs`
CreateReturn ==
    /\ dpc = "loop"
    /\ UNCHANGED notDirs
    /\ Len(merge_dirs) = Len(dir_merges)
    /\ dpc' = "returned"
    /\ UNCHANGED <<dir_merges, created, merge_dirs, draised>>

DirNext ==
    \/ CreateMergeDir
    \/ CreateReturn

(***************************************************************************)
(* The comparison machine: analyze.Evaluations.at_least_as_good_as and the  *)
(* gate command.run_merge_and_compare.                                      *)
(***************************************************************************)
\* most records of an Evaluations, and the largest diff size of a record
MaxEvals == 2
MaxDiff == 1

\* Runtimes are floats in the code; the model counts them in tenths of a
\* time unit.
RuntimeScale == 10
Runtimes == {10, 13, 20, 24, 25}

\* _significantly_greater_than's defaults min_value = 2.0 and, as passed by
\* _compare, tol_fraction = 1.2 = TolNum / TolDen
MinValue == 2
TolNum == 12
TolDen == 10

\* conts.MergeEvaluation records as evaluate.evaluation_result makes them.
\* Of the fields of type int the model keeps git_diff_size: the other five
\* (git_diff_size_norm, gumtree_diff_size, gumtree_diff_size_norm,
\* num_conflicts, conflict_size) go through the same branch of _compare.
MergeEvaluations ==
    [outcome : {"fail", "conflict"}, git_diff_size : {-1}, runtime : Runtimes]
        \cup [outcome : {"success"}, git_diff_size : 0..MaxDiff, runtime : Runtimes]

\* the fields with field.type in [int, float], in the order of the dataclass
NumericAttrs == <<"git_diff_size", "runtime">>

RECURSIVE SumOf(_, _)
SumOf(data, attr_name) ==
    IF data = << >> THEN 0
    ELSE Head(data)[attr_name] + SumOf(Tail(data), attr_name)

\* Evaluations.mean: sum(...) / len(self.data), kept as a fraction
mean(data, attr_name) == [sum |-> SumOf(data, attr_name), n |-> Len(data)]

\* value < min_value, for a runtime mean
below_min_value(value) == value.sum < MinValue * RuntimeScale * value.n

\* analyze._significantly_greater_than(compare, reference, tol_fraction=1.2)
significantly_greater_than(compare, reference) ==
    IF below_min_value(compare) /\ below_min_value(reference)
    THEN TRUE
    ELSE compare.sum * reference.n * TolDen > TolNum * reference.sum * compare.n

\* analyze._compare on two means. Its branch for "outcome" is never taken:
\* outcome is a field of type str and is not among the attributes compared.
compare(attr_name, compare_val, ref_val) ==
    IF attr_name = "runtime"
    THEN ~significantly_greater_than(compare_val, ref_val)
    ELSE compare_val.sum * ref_val.n <= ref_val.sum * compare_val.n

\* all(self._at_least_as_good_as(ref)): the attributes are compared in
\* order until one is worse; mean divides by len(self.data)
RECURSIVE at_least_as_good_as(_, _, _)
at_least_as_good_as(self, ref, i) ==
    IF i > Len(NumericAttrs) THEN "True"
    ELSE IF self = << >> \/ ref = << >> THEN "ZeroDivisionError"
    ELSE IF ~compare(NumericAttrs[i], mean(self, NumericAttrs[i]), mean(ref, NumericAttrs[i]))
         THEN "False"
         ELSE at_least_as_good_as(self, ref, i + 1)

CmpInit ==
    /\ new_data \in SeqsUpTo(MergeEvaluations, MaxEvals)
    /\ ref_data \in SeqsUpTo(MergeEvaluations, MaxEvals)
    /\ as_good = None
    /\ exit_code = -1
    /\ cpc = "idle"

\* run_merge_and_compare: new_evaluations.at_least_as_good_as(old_evaluations)
AtLeastAsGoodAs ==
    /\ cpc = "idle"
    /\ UNCHANGED notCmp
    /\ as_good' = at_least_as_good_as(new_data, ref_data, 1)
    /\ cpc' = "compared"
    /\ UNCHANGED <<new_data, ref_data, exit_code>>

\* run_merge_and_compare: sys.exit(0) when at least as good, sys.exit(1)
\* when not; an exception that nothing catches ends the interpreter with 1
Exit ==
    /\ cpc = "compared"
    /\ UNCHANGED notCmp
    /\ exit_code' = IF as_good = "True" THEN 0 ELSE 1
    /\ cpc' = "exited"
    /\ UNCHANGED <<new_data, ref_data, as_good>>

CmpNext ==
    \/ AtLeastAsGoodAs
    \/ Exit

(***************************************************************************)
(* The evaluation machine: evaluation_result on one merge result.           *)
(***************************************************************************)
\* most lines of a replayed file
MaxFileLines == 5

\* gitutils.START_CONFLICT, MID_CONFLICT, END_CONFLICT
START_CONFLICT == "<<<<<<<"
MID_CONFLICT == "======="
END_CONFLICT == ">>>>>>>"

\* A line of a file: the conflict marker it starts with ("" when it starts
\* with none) and the text that follows up to the end of the line, such as
\* the revision a merge tool names after a marker.
FileLine(marker, rest) == [marker |-> marker, rest |-> rest]

FileLines ==
    {FileLine(START_CONFLICT, ""), FileLine(START_CONFLICT, " LEFT"),
     FileLine(MID_CONFLICT, ""),
     FileLine(END_CONFLICT, ""), FileLine(END_CONFLICT, " RIGHT"),
     FileLine("", "code")}

\* line.startswith(marker)
line_startswith(line, marker) == line.marker = marker

\* itertools.takewhile(lambda line: not line.startswith(stop), lines) on the
\* iterator: the lines taken, and the lines left once the stop line (if
\* any) is consumed
RECURSIVE takewhile_not(_, _)
takewhile_not(stop, lines) ==
    IF lines = << >> THEN [taken |-> << >>, rest |-> << >>]
    ELSE IF line_startswith(Head(lines), stop)
         THEN [taken |-> << >>, rest |-> Tail(lines)]
    ELSE LET more == takewhile_not(stop, Tail(lines))
         IN  [taken |-> <<Head(lines)>> \o more.taken, rest |-> more.rest]

\* evaluate.MergeConflict
MergeConflict(left, right) == [left |-> left, right |-> right]

\* MergeConflict.pretty_print_conflict, as the lines of the text
pretty_print_conflict(conflict) ==
    <<FileLine(START_CONFLICT, "")>> \o conflict.left
        \o <<FileLine(MID_CONFLICT, "")>> \o conflict.right
        \o <<FileLine(END_CONFLICT, "")>>

\* MergeConflict.num_lines
num_lines(conflict) == Len(conflict.left) + Len(conflict.right)

\* evaluate.extract_conflicts
RECURSIVE extract_conflicts(_)
extract_conflicts(lines) ==
    IF lines = << >> THEN << >>
    ELSE IF line_startswith(Head(lines), START_CONFLICT)
         THEN LET left == takewhile_not(MID_CONFLICT, Tail(lines))
                  right == takewhile_not(END_CONFLICT, left.rest)
              IN  <<MergeConflict(left.taken, right.taken)>>
                      \o extract_conflicts(right.rest)
         ELSE extract_conflicts(Tail(lines))

\* sum(c.num_lines for c in conflicts)
RECURSIVE conflict_size_of(_)
conflict_size_of(conflicts) ==
    IF conflicts = << >> THEN 0
    ELSE num_lines(Head(conflicts)) + conflict_size_of(Tail(conflicts))

\* the metrics of a conts.MergeEvaluation, with its outcome
MergeEvaluation(merge_outcome, git, git_norm, gumtree, gumtree_norm, num, size) ==
    [outcome |-> merge_outcome,
     git_diff_size |-> git, git_diff_size_norm |-> git_norm,
     gumtree_diff_size |-> gumtree, gumtree_diff_size_norm |-> gumtree_norm,
     num_conflicts |-> num, conflict_size |-> size]

\* evaluate.evaluation_result; the four diff sizes are what git diff and
\* GumTree report for the expected and the replayed file
evaluation_result(merge_outcome, lines, git, git_norm, gumtree, gumtree_norm) ==
    IF merge_outcome = "success"
    THEN MergeEvaluation(merge_outcome, git, git_norm, gumtree, gumtree_norm,
                         Len(extract_conflicts(lines)),
                         conflict_size_of(extract_conflicts(lines)))
    ELSE MergeEvaluation(merge_outcome, -1, -1, -1, -1, 0, 0)

EvalInit ==
    /\ ev_module \in {"evaluate", "gather"}
    /\ ev_outcome \in {"success", "conflict", "fail"}
    /\ replayed_file \in SeqsUpTo(FileLines, MaxFileLines)
    /\ evaluation = None
    /\ epc = "idle"

\* evaluate.evaluation_result(merge_result, base_merge_dir), the function
\* evaluate.run_and_evaluate calls
EvaluationResult(git, git_norm, gumtree, gumtree_norm) ==
    /\ epc = "idle"
    /\ UNCHANGED notEval
    /\ ev_module = "evaluate"
    /\ evaluation' = evaluation_result(ev_outcome, replayed_file,
                                       git, git_norm, gumtree, gumtree_norm)
    /\ epc' = "returned"
    /\ UNCHANGED <<ev_module, ev_outcome, replayed_file>>

\* gather.evaluation_result: its first test reads run.MergeOutcome, a name
\* the module run does not define: AttributeError
GatherEvaluationResult ==
    /\ epc = "idle"
    /\ UNCHANGED notEval
    /\ ev_module = "gather"
    /\ epc' = "raised"
    /\ UNCHANGED <<ev_module, ev_outcome, replayed_file, evaluation>>

EvalNext ==
    \/ \E git, git_norm, gumtree, gumtree_norm \in 0..MaxDiff :
          EvaluationResult(git, git_norm, gumtree, gumtree_norm)
    \/ GatherEvaluationResult

(***************************************************************************)
(* The repeated-mining machine: gitutils.extract_merge_scenarios called     *)
(* twice on one repository with the same arguments. The trial merges of     *)
(* the non-trivial filter act on the repository the second call reads.      *)
(***************************************************************************)
\* number of commits on the first-parent chain of the repository mined twice
NMined == 2

\* the calls made in a row
NCalls == 2

\* the commits, oldest first; commit c has commit c - 1 as its first parent,
\* 0 stands for what came before the first of them
RepoCommits == 1..NMined

\* the merge_commit_shas both calls are given: None, or a list of hashes
RepoShaLists ==
    {[given |-> FALSE, shas |-> {}], [given |-> TRUE, shas |-> {}]}
        \cup {[given |-> TRUE, shas |-> {c}] : c \in RepoCommits \cup {UnknownHash}}

\* repo.iter_commits(): the commits reachable from HEAD, newest first
iter_commits_from(commit) == [i \in 1..commit |-> commit + 1 - i]

\* `len(commit.parents) == 2` and repo.merge_base(*merge.parents, all=True)
\* for a commit of r_history
has_two_parents(c) == r_history[c] \notin {"single", "octopus"}
has_one_base(c) == r_history[c] \in {"trivial", "conflicting"}

\* merge.parents[0].hexsha
left_of(c) == c - 1

\* where saved_git_head leaves HEAD when it forgets the saved commit
restored_head_Left(saved, left) == left

\* saved_git_head: `saved_head = repo.head.commit.hexsha` on entry,
\* `checkout_clean(repo, saved_head)` on exit
restored_head(saved, left) == saved

\* what one call came to
Returned(scenarios) == [returned |-> TRUE, error |-> None, scenarios |-> scenarios]
Raised(error) == [returned |-> FALSE, error |-> error, scenarios |-> << >>]

RemineInit ==
    /\ r_history \in [RepoCommits -> Kinds]
    /\ r_head \in RepoCommits
    /\ r_attached \in BOOLEAN
    /\ r_untracked \in BOOLEAN
    /\ r_attributes \in BOOLEAN
    /\ r_driver \in BOOLEAN
    /\ r_non_trivial \in BOOLEAN
    /\ r_shas \in RepoShaLists
    /\ r_pending = << >>
    /\ r_expected = {}
    /\ r_scenarios = << >>
    /\ r_results = << >>
    /\ r_pc = "idle"

\* extract_merge_scenarios up to `merge_commits = list(merge_commits)`: the
\* walk from HEAD is finished before the first trial merge
RemineCall ==
    /\ r_pc = "idle"
    /\ UNCHANGED notRemine
    /\ Len(r_results) < NCalls
    /\ r_pending' =
          LET wanted(c) == has_two_parents(c) /\ (r_shas.given => c \in r_shas.shas)
          IN  SelectSeq(iter_commits_from(r_head), wanted)
    /\ r_expected' = IF r_shas.given THEN r_shas.shas ELSE {}
    /\ r_scenarios' = << >>
    /\ r_pc' = "loop"
    /\ UNCHANGED <<r_history, r_head, r_attached, r_untracked, r_attributes,
                   r_driver, r_non_trivial, r_shas, r_results>>

\* an iteration of the loop that makes no trial merge: the merge base is
\* missing or ambiguous, or non_trivial is False
RemineLoopPlain ==
    /\ r_pc = "loop"
    /\ UNCHANGED notRemine
    /\ r_pending # << >>
    /\ LET merge == Head(r_pending)
       IN  /\ ~has_one_base(merge) \/ ~r_non_trivial
           /\ IF has_one_base(merge)
              THEN /\ r_expected' = r_expected \ {merge}
                   /\ r_scenarios' = Append(r_scenarios, merge)
              ELSE UNCHANGED <<r_expected, r_scenarios>>
    /\ r_pending' = Tail(r_pending)
    /\ UNCHANGED <<r_history, r_head, r_attached, r_untracked, r_attributes,
                   r_driver, r_non_trivial, r_shas, r_results, r_pc>>

\* an iteration with `extract_conflicting_files(repo, scenario)`, the whole
\* of its merge_no_commit block: checkout_clean(left), set_merge_driver, the
\* merge, checkout_clean(saved_head), clear_merge_driver, `git reset --merge`
RemineLoopTrialMerge ==
    /\ r_pc = "loop"
    /\ UNCHANGED notRemine
    /\ r_pending # << >>
    /\ LET merge == Head(r_pending)
       IN  /\ has_one_base(merge) /\ r_non_trivial
           /\ r_head' = restored_head(r_head, left_of(merge))
           /\ r_attached' = FALSE
           /\ r_untracked' = FALSE
           /\ r_attributes' = FALSE
           /\ IF ~r_driver
              THEN \* set_merge_driver raises before it writes the file
                   /\ r_results' = Append(r_results,
                          Raised(IF r_attributes THEN "EnvironmentError"
                                 ELSE "FileNotFoundError"))
                   /\ r_pending' = << >>
                   /\ r_pc' = "idle"
                   /\ UNCHANGED <<r_expected, r_scenarios>>
              ELSE /\ IF r_history[merge] = "conflicting"
                      THEN /\ r_expected' = r_expected \ {merge}
                           /\ r_scenarios' = Append(r_scenarios, merge)
                      ELSE UNCHANGED <<r_expected, r_scenarios>>
                   /\ r_pending' = Tail(r_pending)
                   /\ UNCHANGED <<r_results, r_pc>>
    /\ UNCHANGED <<r_history, r_driver, r_non_trivial, r_shas>>

\* `if expected_merge_commits: raise RuntimeError(...)`, `return merge_scenarios`
RemineFinish ==
    /\ r_pc = "loop"
    /\ UNCHANGED notRemine
    /\ r_pending = << >>
    /\ r_results' = Append(r_results,
          IF r_expected # {} THEN Raised("RuntimeError") ELSE Returned(r_scenarios))
    /\ r_pc' = "idle"
    /\ UNCHANGED <<r_history, r_head, r_attached, r_untracked, r_attributes,
                   r_driver, r_non_trivial, r_shas, r_pending, r_expected,
                   r_scenarios>>

RemineNext ==
    \/ RemineCall
    \/ RemineLoopPlain
    \/ RemineLoopTrialMerge
    \/ RemineFinish

(***************************************************************************)
(* The MPI machine: mpi.master on rank 0 and mpi.worker on every other      *)
(* rank, with the messages of comm.send that comm.recv has not yet taken.   *)
(***************************************************************************)
\* most merge directories, most worker ranks
MaxDirs == 5
MaxWorkers == 3

MASTER_RANK == 0
WorkerRanks == 1..MaxWorkers

\* worker("spork", "jdime") in mpi.main
MpiMergeCommands == <<"spork", "jdime">>

\* `dirs_per_proc = int(len(merge_dirs) / NUM_WORKERS)`
dirs_per_proc == Len(mpi_merge_dirs) \div NUM_WORKERS

\* `range_starts = [i * dirs_per_proc for i in range(NUM_WORKERS)]`, from 0
range_start(i) == i * dirs_per_proc

\* the end of every range taken from the next start
range_end_NoRemainder(i) == (i + 1) * dirs_per_proc

\* `end = range_starts[i + 1] if i < len(range_starts) - 1 else len(merge_dirs)`
range_end(i) ==
    IF i < NUM_WORKERS - 1 THEN range_start(i + 1) ELSE Len(mpi_merge_dirs)

\* the Python slice list[start:end], indices from 0
slice(list, start, end) == SubSeq(list, start + 1, end)

MpiInit ==
    /\ \E n \in 0..MaxDirs : mpi_merge_dirs = [d \in 1..n |-> d]
    /\ NUM_WORKERS \in 0..MaxWorkers
    /\ master_pc = "start"
    /\ master_i = 0
    /\ master_results = << >>
    /\ sent = << >>
    /\ mailbox = [r \in {MASTER_RANK} \cup WorkerRanks |-> << >>]
    /\ worker_pc = [r \in WorkerRanks |-> IF r <= NUM_WORKERS THEN "recv" ELSE "absent"]
    /\ worker_dirs = [r \in WorkerRanks |-> << >>]
    /\ worker_results = [r \in WorkerRanks |-> << >>]
    /\ worker_recvs = [r \in WorkerRanks |-> << >>]
    /\ worker_sends = [r \in WorkerRanks |-> << >>]
    /\ written = << >>

\* master up to its first loop: the division by NUM_WORKERS
MasterStart ==
    /\ master_pc = "start"
    /\ UNCHANGED notMpi
    /\ master_pc' = IF NUM_WORKERS = 0 THEN "raised" ELSE "send"
    /\ UNCHANGED <<mpi_merge_dirs, NUM_WORKERS, master_i, master_results, sent,
                   mailbox, worker_pc, worker_dirs, worker_results,
                   worker_recvs, worker_sends, written>>

\* one iteration of `for i in range(num_procs - 1)`: comm.send(proc_dirs, dest=i + 1)
MasterSend ==
    /\ master_pc = "send"
    /\ UNCHANGED notMpi
    /\ LET proc_dirs == slice(mpi_merge_dirs, range_start(master_i), range_end(master_i))
           dest == master_i + 1
       IN  /\ mailbox' = [mailbox EXCEPT ![dest] = Append(@, proc_dirs)]
           /\ sent' = Append(sent, <<dest, proc_dirs>>)
    /\ IF master_i + 1 < NUM_WORKERS
       THEN /\ master_i' = master_i + 1
            /\ UNCHANGED master_pc
       ELSE /\ master_i' = 0
            /\ master_pc' = "recv"
    /\ UNCHANGED <<mpi_merge_dirs, NUM_WORKERS, master_results, worker_pc,
                   worker_dirs, worker_results, worker_recvs, worker_sends, written>>

\* a sequence without its k-th element
remove_at(seq, k) == SubSeq(seq, 1, k - 1) \o SubSeq(seq, k + 1, Len(seq))

\* one iteration of the second loop:
\* `results += comm.recv(source=MPI.ANY_SOURCE, status=stat)`
MasterRecv ==
    /\ master_pc = "recv"
    /\ UNCHANGED notMpi
    /\ \E k \in 1..Len(mailbox[MASTER_RANK]) :
          /\ master_results' = master_results \o mailbox[MASTER_RANK][k].body
          /\ mailbox' = [mailbox EXCEPT ![MASTER_RANK] = remove_at(@, k)]
    /\ IF master_i + 1 < NUM_WORKERS
       THEN /\ master_i' = master_i + 1
            /\ UNCHANGED master_pc
       ELSE /\ master_i' = 0
            /\ master_pc' = "write"
    /\ UNCHANGED <<mpi_merge_dirs, NUM_WORKERS, sent, worker_pc, worker_dirs,
                   worker_results, worker_recvs, worker_sends, written>>

\* write_results(results, "results.csv")
MasterWrite ==
    /\ master_pc = "write"
    /\ UNCHANGED notMpi
    /\ written' = master_results
    /\ master_pc' = "written"
    /\ UNCHANGED <<mpi_merge_dirs, NUM_WORKERS, master_i, master_results, sent,
                   mailbox, worker_pc, worker_dirs, worker_results,
                   worker_recvs, worker_sends>>

\* worker: `dirs = comm.recv(source=MASTER_RANK)`
WorkerRecv(rank) ==
    /\ worker_pc[rank] = "recv"
    /\ UNCHANGED notMpi
    /\ mailbox[rank] # << >>
    /\ worker_dirs' = [worker_dirs EXCEPT ![rank] = Head(mailbox[rank])]
    /\ worker_recvs' = [worker_recvs EXCEPT ![rank] = Append(@, MASTER_RANK)]
    /\ mailbox' = [mailbox EXCEPT ![rank] = Tail(@)]
    /\ worker_pc' = [worker_pc EXCEPT ![rank] = "run"]
    /\ UNCHANGED <<mpi_merge_dirs, NUM_WORKERS, master_pc, master_i,
                   master_results, sent, worker_results, worker_sends, written>>

\* worker's loops over dirs and merge_commands: the first iteration reads
\* `run.run_merge`, which run.py does not define (AttributeError); with no
\* dirs the loop body never runs
WorkerRun(rank) ==
    /\ worker_pc[rank] = "run"
    /\ UNCHANGED notMpi
    /\ worker_pc' = [worker_pc EXCEPT ![rank] =
                        IF worker_dirs[rank] # << >> THEN "raised" ELSE "send"]
    /\ UNCHANGED <<mpi_merge_dirs, NUM_WORKERS, master_pc, master_i,
                   master_results, sent, mailbox, worker_dirs, worker_results,
                   worker_recvs, worker_sends, written>>

\* worker: `comm.send(results, dest=MASTER_RANK)`
WorkerSend(rank) ==
    /\ worker_pc[rank] = "send"
    /\ UNCHANGED notMpi
    /\ mailbox' = [mailbox EXCEPT ![MASTER_RANK] =
                      Append(@, [source |-> rank, body |-> worker_results[rank]])]
    /\ worker_sends' = [worker_sends EXCEPT ![rank] = Append(@, MASTER_RANK)]
    /\ worker_pc' = [worker_pc EXCEPT ![rank] = "done"]
    /\ UNCHANGED <<mpi_merge_dirs, NUM_WORKERS, master_pc, master_i,
                   master_results, sent, worker_dirs, worker_results,
                   worker_recvs, written>>

MasterNext ==
    \/ MasterStart
    \/ MasterSend
    \/ MasterRecv
    \/ MasterWrite

WorkerNext(rank) ==
    \/ WorkerRecv(rank)
    \/ WorkerRun(rank)
    \/ WorkerSend(rank)

MpiNext ==
    \/ MasterNext
    \/ \E rank \in WorkerRanks : WorkerNext(rank)

(***************************************************************************)
(* The working-tree machine: the with blocks (gitutils.merge_no_commit,     *)
(* gitutils.saved_git_head) that the commands of command.py open on the one *)
(* working tree of the repository, and the generator run.run_git_merge that *)
(* yields inside one.                                                       *)
(***************************************************************************)
\* most merge scenarios, merge drivers, and class file pairs of a scenario
MaxTreeScenarios == 2
MaxDrivers == 2
MaxPairs == 2

TreeCommands == {"extract_merge_commits", "extract_file_merge_metainfo", "git_merge"}

\* a commit of a merge scenario, and the commit HEAD is at when a command starts
ScenarioCommit(ms, role) == <<ms, role>>
HEAD0 == <<0, "HEAD">>

\* `for commit in [ms.base, ms.left, ms.right, ms.expected]`
BuildRoles == <<"base", "left", "right", "expected">>

\* entering a with block: saved_git_head reads repo.head.commit.hexsha
entered(open, block, commit) == Append(open, [block |-> block, saved_head |-> commit])

\* leaving the innermost block; it restores HEAD to its saved_head
exited(open) == SubSeq(open, 1, Len(open) - 1)
innermost(open) == open[Len(open)]

TreeInit ==
    /\ t_command \in TreeCommands
    /\ t_non_trivial \in (IF t_command = "extract_merge_commits" THEN BOOLEAN ELSE {FALSE})
    /\ t_buildable \in (IF t_command = "extract_merge_commits" THEN BOOLEAN ELSE {FALSE})
    /\ t_testable \in (IF t_command = "extract_merge_commits" THEN BOOLEAN ELSE {FALSE})
    /\ t_eval_dir \in (IF t_command = "git_merge" THEN BOOLEAN ELSE {FALSE})
    /\ t_num_scenarios \in 0..MaxTreeScenarios
    /\ t_num_drivers \in (IF t_command = "git_merge" THEN 1..MaxDrivers ELSE {1})
    /\ t_head = HEAD0
    /\ t_open = << >>
    /\ t_pc = "mine"
    /\ t_call = None
    /\ t_ms = 1
    /\ t_commit = 1
    /\ t_driver = 1
    /\ t_pairs = 0
    /\ t_kept = {}
    /\ t_rows = 0

\* gitutils.extract_conflicting_files up to the body of its with block:
\* merge_no_commit saves HEAD, checks out left and merges right. Called by
\* extract_merge_scenarios (non_trivial), by extract_all_conflicting_files
\* and by run_git_merge inside its saved_git_head block
ExtractConflictingFilesEnter ==
    /\ t_call = None
    /\ UNCHANGED notTree
    /\ \/ t_pc = "mine" /\ t_non_trivial /\ t_ms <= t_num_scenarios
       \/ t_pc = "extract" /\ t_ms <= t_num_scenarios
       \/ t_pc = "eval"
    /\ t_open' = entered(t_open, "merge_no_commit", t_head)
    /\ t_head' = ScenarioCommit(t_ms, "left")
    /\ t_call' = "extract_conflicting_files"
    /\ UNCHANGED <<treeParams, t_pc, t_ms, t_commit, t_driver, t_pairs, t_kept, t_rows>>

\* the end of extract_conflicting_files: its with block is left, HEAD restored
ExtractConflictingFilesExit ==
    /\ t_call = "extract_conflicting_files"
    /\ UNCHANGED notTree
    /\ t_head' = innermost(t_open).saved_head
    /\ t_open' = exited(t_open)
    /\ t_call' = None
    /\ IF t_pc = "eval"
       THEN t_pc' = "expected" /\ UNCHANGED t_ms
       ELSE t_ms' = t_ms + 1 /\ UNCHANGED t_pc
    /\ UNCHANGED <<treeParams, t_commit, t_driver, t_pairs, t_kept, t_rows>>

\* extract_merge_scenarios returns; what the command does next
MineDone ==
    /\ t_pc = "mine" /\ t_call = None
    /\ UNCHANGED notTree
    /\ ~t_non_trivial \/ t_ms > t_num_scenarios
    /\ t_pc' = CASE t_command = "extract_merge_commits" ->
                        IF t_buildable \/ t_testable THEN "build" ELSE "done"
                 [] t_command = "extract_file_merge_metainfo" -> "extract"
                 [] OTHER -> "scenario"
    /\ t_ms' = 1
    /\ UNCHANGED <<treeParams, t_head, t_open, t_call, t_commit, t_driver, t_pairs,
                   t_kept, t_rows>>

\* extract_file_merge_metainfo: every scenario has been looked at
ExtractDone ==
    /\ t_pc = "extract" /\ t_call = None
    /\ UNCHANGED notTree
    /\ t_ms > t_num_scenarios
    /\ t_pc' = "done"
    /\ UNCHANGED <<treeParams, t_head, t_open, t_call, t_ms, t_commit, t_driver,
                   t_pairs, t_kept, t_rows>>

\* run.is_buildable up to the build: saved_git_head, `git checkout <sha> --force`
BuildEnter ==
    /\ t_pc = "build"
    /\ UNCHANGED notTree
    /\ t_ms <= t_num_scenarios
    /\ t_open' = entered(t_open, "is_buildable", t_head)
    /\ t_head' = ScenarioCommit(t_ms, BuildRoles[t_commit])
    /\ t_pc' = "building"
    /\ UNCHANGED <<treeParams, t_call, t_ms, t_commit, t_driver, t_pairs, t_kept, t_rows>>

\* is_buildable returns build_ok; `all(...)` stops at the first False
BuildExit(build_ok) ==
    /\ t_pc = "building"
    /\ UNCHANGED notTree
    /\ t_head' = innermost(t_open).saved_head
    /\ t_open' = exited(t_open)
    /\ t_pc' = "build"
    /\ IF build_ok /\ t_commit < Len(BuildRoles)
       THEN t_commit' = t_commit + 1 /\ UNCHANGED <<t_ms, t_kept>>
       ELSE /\ t_commit' = 1
            /\ t_ms' = t_ms + 1
            /\ t_kept' = IF build_ok THEN t_kept \cup {t_ms} ELSE t_kept
    /\ UNCHANGED <<treeParams, t_call, t_driver, t_pairs, t_rows>>

\* the buildable filter is over
BuildDone ==
    /\ t_pc = "build"
    /\ UNCHANGED notTree
    /\ t_ms > t_num_scenarios
    /\ t_pc' = IF t_testable THEN "test" ELSE "done"
    /\ t_ms' = 1
    /\ UNCHANGED <<treeParams, t_head, t_open, t_call, t_commit, t_driver, t_pairs,
                   t_kept, t_rows>>

\* the scenarios of the list `buildable` not yet tested
to_test == {ms \in t_kept : ms >= t_ms}
first_of(S) == CHOOSE x \in S : \A y \in S : x <= y

\* run.is_testable up to the test run
TestEnter ==
    /\ t_pc = "test"
    /\ UNCHANGED notTree
    /\ to_test # {}
    /\ t_open' = entered(t_open, "is_testable", t_head)
    /\ t_head' = ScenarioCommit(first_of(to_test), "expected")
    /\ t_ms' = first_of(to_test)
    /\ t_pc' = "testing"
    /\ UNCHANGED <<treeParams, t_call, t_commit, t_driver, t_pairs, t_kept, t_rows>>

\* is_testable returns
TestExit ==
    /\ t_pc = "testing"
    /\ UNCHANGED notTree
    /\ t_head' = innermost(t_open).saved_head
    /\ t_open' = exited(t_open)
    /\ t_ms' = t_ms + 1
    /\ t_pc' = "test"
    /\ UNCHANGED <<treeParams, t_call, t_commit, t_driver, t_pairs, t_kept, t_rows>>

\* the testable filter is over
TestDone ==
    /\ t_pc = "test"
    /\ UNCHANGED notTree
    /\ to_test = {}
    /\ t_pc' = "done"
    /\ UNCHANGED <<treeParams, t_head, t_open, t_call, t_ms, t_commit, t_driver,
                   t_pairs, t_kept, t_rows>>

\* run_git_merges: the next scenario's run_git_merge starts, asked for its
\* first result; with eval_dir it opens `with gitutils.saved_git_head(repo)`
GenScenario ==
    /\ t_pc = "scenario"
    /\ UNCHANGED notTree
    /\ t_ms <= t_num_scenarios
    /\ IF t_eval_dir
       THEN /\ t_open' = entered(t_open, "saved_git_head", t_head)
            /\ t_pc' = "eval"
       ELSE /\ t_pc' = "driver"
            /\ UNCHANGED t_open
    /\ t_driver' = 1
    /\ UNCHANGED <<treeParams, t_head, t_call, t_ms, t_commit, t_pairs, t_kept, t_rows>>

\* run_git_merges has no scenario left: the generator ends, write_csv writes
GenExhausted ==
    /\ t_pc = "scenario"
    /\ UNCHANGED notTree
    /\ t_ms > t_num_scenarios
    /\ t_pc' = "done"
    /\ UNCHANGED <<treeParams, t_head, t_open, t_call, t_ms, t_commit, t_driver,
                   t_pairs, t_kept, t_rows>>

\* _extract_expected_revision_classfiles: checkout_clean(repo, ms.expected.hexsha)
\* and the build of the expected revision
ExpectedCheckout ==
    /\ t_pc = "expected"
    /\ UNCHANGED notTree
    /\ t_head' = ScenarioCommit(t_ms, "expected")
    /\ t_pc' = "expected_built"
    /\ UNCHANGED <<treeParams, t_open, t_call, t_ms, t_commit, t_driver, t_pairs,
                   t_kept, t_rows>>

\* the saved_git_head block of run_git_merge is left: with class files, with
\* none (`return`), or by RuntimeError when the expected revision did not build
ExpectedExit(result) ==
    /\ t_pc = "expected_built"
    /\ UNCHANGED notTree
    /\ t_head' = innermost(t_open).saved_head
    /\ t_open' = exited(t_open)
    /\ CASE result = "classfiles" -> t_pc' = "driver" /\ UNCHANGED t_ms
         [] result = "none" -> t_pc' = "scenario" /\ t_ms' = t_ms + 1
         [] OTHER -> t_pc' = "raised" /\ UNCHANGED t_ms
    /\ UNCHANGED <<treeParams, t_call, t_commit, t_driver, t_pairs, t_kept, t_rows>>

\* `with gitutils.merge_no_commit(repo, ms.left.hexsha, ms.right.hexsha,
\* driver_config=(merge_driver, "*.java"))` and the body up to its yields:
\* one per class file pair with eval_dir, else one
DriverEnter ==
    /\ t_pc = "driver"
    /\ UNCHANGED notTree
    /\ t_driver <= t_num_drivers
    /\ t_open' = entered(t_open, "merge_no_commit", t_head)
    /\ t_head' = ScenarioCommit(t_ms, "left")
    /\ t_pairs' \in (IF t_eval_dir THEN 0..MaxPairs ELSE {1})
    /\ t_pc' = "in_driver"
    /\ UNCHANGED <<treeParams, t_call, t_ms, t_commit, t_driver, t_kept, t_rows>>

\* `yield conts.GitMergeResult(...)`: the generator is suspended inside the
\* with block and its consumer has the result
Yield ==
    /\ t_pc = "in_driver"
    /\ UNCHANGED notTree
    /\ t_pairs > 0
    /\ t_pairs' = t_pairs - 1
    /\ t_pc' = "yielded"
    /\ UNCHANGED <<treeParams, t_head, t_open, t_call, t_ms, t_commit, t_driver,
                   t_kept, t_rows>>

\* a consumer that builds the merge commit of every result it is handed
GitMergeConsume_Building ==
    /\ t_pc = "yielded"
    /\ UNCHANGED notTree
    /\ t_open' = entered(t_open, "is_buildable", t_head)
    /\ t_head' = ScenarioCommit(t_ms, "expected")
    /\ t_rows' = t_rows + 1
    /\ t_pc' = "in_driver"
    /\ UNCHANGED <<treeParams, t_call, t_ms, t_commit, t_driver, t_pairs, t_kept>>

\* command.git_merge hands the generator to reporter.write_csv, which takes
\* the result as a row and asks for the next; it does not touch the repository
GitMergeConsume ==
    /\ t_pc = "yielded"
    /\ UNCHANGED notTree
    /\ t_rows' = t_rows + 1
    /\ t_pc' = "in_driver"
    /\ UNCHANGED <<treeParams, t_head, t_open, t_call, t_ms, t_commit, t_driver,
                   t_pairs, t_kept>>

\* the generator, resumed after its last yield in the block, leaves the
\* with block: HEAD restored, merge driver cleared
DriverExit ==
    /\ t_pc = "in_driver"
    /\ UNCHANGED notTree
    /\ t_pairs = 0
    /\ t_head' = innermost(t_open).saved_head
    /\ t_open' = exited(t_open)
    /\ t_driver' = t_driver + 1
    /\ t_pc' = "driver"
    /\ UNCHANGED <<treeParams, t_call, t_ms, t_commit, t_pairs, t_kept, t_rows>>

\* `for merge_driver in merge_drivers` is over: run_git_merge ends
DriverDone ==
    /\ t_pc = "driver"
    /\ UNCHANGED notTree
    /\ t_driver > t_num_drivers
    /\ t_ms' = t_ms + 1
    /\ t_pc' = "scenario"
    /\ UNCHANGED <<treeParams, t_head, t_open, t_call, t_commit, t_driver, t_pairs,
                   t_kept, t_rows>>

TreeNext ==
    \/ ExtractConflictingFilesEnter
    \/ ExtractConflictingFilesExit
    \/ MineDone
    \/ ExtractDone
    \/ BuildEnter
    \/ \E build_ok \in BOOLEAN : BuildExit(build_ok)
    \/ BuildDone
    \/ TestEnter
    \/ TestExit
    \/ TestDone
    \/ GenScenario
    \/ GenExhausted
    \/ ExpectedCheckout
    \/ \E result \in {"classfiles", "none", "RuntimeError"} : ExpectedExit(result)
    \/ DriverEnter
    \/ Yield
    \/ GitMergeConsume
    \/ DriverExit
    \/ DriverDone

(***************************************************************************)
(* The per-record comparison machine: analyze.Evaluations built from the    *)
(* new and the reference evaluations, and log_diffs over the two.           *)
(***************************************************************************)
\* number of merge directories, and of hashes a replayed file can have
NLogDirs == 1
NBlobs == 2

LogCommands == {"jdime", "spork"}

\* the order of str on the merge commands
CmdRank(cmd) == IF cmd = "jdime" THEN 1 ELSE 2

\* the (merge directory, merge command) keys
LogKeys == (1..NLogDirs) \X LogCommands

\* conts.MergeEvaluation records; the fields left out are the same for
\* every record of a merge directory (merge_commit and the blobs of the
\* revisions) or stand after the fields kept
LogEvaluations ==
    [merge_dir : 1..NLogDirs, replayed_blob : 1..NBlobs, merge_cmd : LogCommands,
     git_diff_size : 0..MaxDiff, runtime : {10, 25}]

key_of(e) == <<e.merge_dir, e.merge_cmd>>

\* sets of evaluations with at most one record per key
OnePerKey(S) == \A e, f \in S : key_of(e) = key_of(f) => e = f
EvaluationSets == {S \in SUBSET LogEvaluations : OnePerKey(S)}

\* the order of the dataclass (order=True): the fields compared in the
\* order they are declared, merge_dir first, replayed_blob before merge_cmd
sort_key(e) == <<e.merge_dir, e.replayed_blob, CmdRank(e.merge_cmd),
                 e.git_diff_size, e.runtime>>

RECURSIVE tuple_less(_, _)
tuple_less(a, b) ==
    IF a = << >> THEN FALSE
    ELSE Head(a) < Head(b) \/ (Head(a) = Head(b) /\ tuple_less(Tail(a), Tail(b)))

\* Evaluations.__init__: `tuple(sorted(data))`
RECURSIVE sorted(_)
sorted(data) ==
    IF data = {} THEN << >>
    ELSE LET least == CHOOSE e \in data :
                         \A f \in data \ {e} : tuple_less(sort_key(e), sort_key(f))
         IN  <<least>> \o sorted(data \ {least})

\* a number as the fraction analyze._compare is modelled on
scalar(v) == [sum |-> v, n |-> 1]

\* what log_diffs logs for one pair of records: per numerical attribute the
\* level, the directory of the new record and the two values; the model
\* keeps the two records next to it
log_records(self_eval, ref_eval) ==
    [a \in 1..Len(NumericAttrs) |->
        [level |-> IF compare(NumericAttrs[a], scalar(self_eval[NumericAttrs[a]]),
                              scalar(ref_eval[NumericAttrs[a]]))
                   THEN "info" ELSE "warning",
         merge_dir |-> self_eval.merge_dir,
         attr_name |-> NumericAttrs[a],
         was |-> ref_eval[NumericAttrs[a]],
         now |-> self_eval[NumericAttrs[a]],
         self_eval |-> self_eval,
         ref_eval |-> ref_eval]]

LogInit ==
    /\ l_new \in EvaluationSets
    /\ l_ref \in EvaluationSets
    /\ l_self_data = << >>
    /\ l_ref_data = << >>
    /\ l_log = << >>
    /\ l_i = 0
    /\ l_pc = "idle"

\* run_merge_and_compare: Evaluations.from_path(args.compare, ...) and
\* Evaluations(data=data, ...)
MakeEvaluations ==
    /\ l_pc = "idle"
    /\ UNCHANGED notLog
    /\ l_self_data' = sorted(l_new)
    /\ l_ref_data' = sorted(l_ref)
    /\ l_pc' = "log_diffs"
    /\ UNCHANGED <<l_new, l_ref, l_log, l_i>>

\* one pair of `for self_eval, ref_eval in zip(self.data, ref.data)`
LogDiffsPair ==
    /\ l_pc = "log_diffs"
    /\ UNCHANGED notLog
    /\ l_i < Len(l_self_data) /\ l_i < Len(l_ref_data)
    /\ l_log' = l_log \o log_records(l_self_data[l_i + 1], l_ref_data[l_i + 1])
    /\ l_i' = l_i + 1
    /\ UNCHANGED <<l_new, l_ref, l_self_data, l_ref_data, l_pc>>

\* zip is exhausted: log_diffs returns
LogDiffsReturn ==
    /\ l_pc = "log_diffs"
    /\ UNCHANGED notLog
    /\ l_i >= Len(l_self_data) \/ l_i >= Len(l_ref_data)
    /\ l_pc' = "returned"
    /\ UNCHANGED <<l_new, l_ref, l_self_data, l_ref_data, l_log, l_i>>

LogNext ==
    \/ MakeEvaluations
    \/ LogDiffsPair
    \/ LogDiffsReturn

(***************************************************************************)
(* The specifications. A machine that is not the one under check stays in   *)
(* one first state.                                                         *)
(***************************************************************************)
GitParked ==
    /\ head = 1 /\ attached = FALSE /\ index = "clean" /\ untracked = {}
    /\ attributes = FALSE /\ driverOk = TRUE
    /\ GitInit

ReplayParked == ReplayStart(<< >>)

MineParked == history = [c \in MineCommits |-> "single"] /\ MineInit

ExtractParked == stdout = << >> /\ locator = FALSE /\ ExtractInit

\* the machines added after the first three, at rest
DirParked == dir_merges = << >> /\ DirInit

CmpParked == new_data = << >> /\ ref_data = << >> /\ CmpInit

EvalParked ==
    /\ ev_module = "evaluate" /\ ev_outcome = "fail" /\ replayed_file = << >>
    /\ EvalInit

\* the machines added later, at rest
RemineParked ==
    /\ r_history = [c \in RepoCommits |-> "single"] /\ r_head = 1
    /\ r_attached = FALSE /\ r_untracked = FALSE /\ r_attributes = FALSE
    /\ r_driver = TRUE /\ r_non_trivial = FALSE
    /\ r_shas = [given |-> FALSE, shas |-> {}]
    /\ RemineInit

MpiParked == mpi_merge_dirs = << >> /\ NUM_WORKERS = 0 /\ MpiInit

TreeParked ==
    /\ t_command = "git_merge" /\ t_eval_dir = FALSE /\ t_num_scenarios = 0
    /\ t_num_drivers = 1
    /\ TreeInit

LogParked == l_new = {} /\ l_ref = {} /\ LogInit

LaterParked == RemineParked /\ MpiParked /\ TreeParked /\ LogParked

RestParked == ExtractParked /\ DirParked /\ CmpParked /\ EvalParked /\ LaterParked

Init == ReplayParked /\ MineParked /\ RestParked /\ GitInit

Next == GitNext

Spec == Init /\ [][Next]_vars

InitReplay == GitParked /\ MineParked /\ RestParked /\ ReplayInit

SpecReplay == InitReplay /\ [][ReplayNext]_vars

InitMine == GitParked /\ ReplayParked /\ RestParked /\ MineInit

SpecMine == InitMine /\ [][MineNext]_vars

FirstParked == GitParked /\ ReplayParked /\ MineParked

InitExtract == FirstParked /\ DirParked /\ CmpParked /\ EvalParked /\ LaterParked /\ ExtractInit

SpecExtract == InitExtract /\ [][ExtractNext]_vars

InitDirs == FirstParked /\ ExtractParked /\ CmpParked /\ EvalParked /\ LaterParked /\ DirInit

SpecDirs == InitDirs /\ [][DirNext]_vars

InitCmp == FirstParked /\ ExtractParked /\ DirParked /\ EvalParked /\ LaterParked /\ CmpInit

SpecCmp == InitCmp /\ [][CmpNext]_vars

InitEval == FirstParked /\ ExtractParked /\ DirParked /\ CmpParked /\ LaterParked /\ EvalInit

SpecEval == InitEval /\ [][EvalNext]_vars

FormerParked == FirstParked /\ ExtractParked /\ DirParked /\ CmpParked /\ EvalParked

InitRemine == FormerParked /\ MpiParked /\ TreeParked /\ LogParked /\ RemineInit

SpecRemine == InitRemine /\ [][RemineNext]_vars

InitMpi == FormerParked /\ RemineParked /\ TreeParked /\ LogParked /\ MpiInit

SpecMpi == InitMpi /\ [][MpiNext]_vars

InitTree == FormerParked /\ RemineParked /\ MpiParked /\ LogParked /\ TreeInit

SpecTree == InitTree /\ [][TreeNext]_vars

InitLog == FormerParked /\ RemineParked /\ MpiParked /\ TreeParked /\ LogInit

SpecLog == InitLog /\ [][LogNext]_vars

\* every rank is a process of its own that runs until it blocks in comm.recv
\* or ends
SpecMpiLive ==
    /\ SpecMpi
    /\ WF_vars(MasterNext)
    /\ \A rank \in WorkerRanks : WF_vars(WorkerNext(rank))

(***************************************************************************)
(* The claims about the trial merge (checked under Spec).                   *)
(***************************************************************************)

\* C1, as stated: on every exit path of a trial merge (or of a block guarded
\* by saved_git_head) the repository's HEAD, its index and its untracked
\* files are what they were before the block.
C1_RepositoryAsBefore ==
    pc = "exited" =>
        /\ head = entry.head
        /\ index = entry.index
        /\ untracked = entry.untracked

\* C1, amended: on every exit path HEAD points, detached, at the commit it
\* pointed at before the block, no merge is in progress, the index is clean
\* and the working tree holds no untracked file: what was staged or
\* untracked before the block is removed, not brought back.
C1_HeadRestoredAndClean ==
    pc = "exited" =>
        /\ head = entry.head
        /\ ~attached
        /\ index = "clean"
        /\ untracked = {}
        /\ ~mergeHead

\* a conflicting trial merge whose body raised has exited, in a repository
\* that held an untracked file before
C1_Witness ==
    /\ pc = "exited"
    /\ kind = "merge_no_commit"
    /\ ~success
    /\ observed = "BodyError"
    /\ entry.untracked # {}

\* C2: an exception raised by the body of a trial merge (or of a
\* saved_git_head block) reaches the caller, as that exception, only after
\* the restoration ran: the caller sees no exception while the repository
\* is still in the trial-merge state.
C2_RaisedOnlyAfterRestore ==
    /\ observed # None => restored
    /\ (pc = "exited" /\ bodyRaised) =>
            /\ observed = "BodyError"
            /\ restored
            /\ head = saved_head
            /\ index = "clean"
            /\ ~mergeHead

\* the body of a trial merge raised and the caller has the exception
C2_Witness ==
    /\ pc = "exited"
    /\ kind = "merge_no_commit"
    /\ bodyRaised
    /\ observed = "BodyError"

(***************************************************************************)
(* The claims about the replay (checked under SpecReplay).                  *)
(***************************************************************************)
Outcomes == {"success", "conflict", "fail"}

ReplayOver == rpc \in {"returned", "raised"}

\* the directory holds Base, Left, Right and Expected, once each
HoldsTheFour ==
    \A prefix \in {"Base", "Left", "Right", "Expected"} : get_filename_ok(prefix)

\* C3, as stated: every replay in a merge directory that holds Base, Left,
\* Right and Expected returns a MergeResult whose outcome is Success,
\* Conflict or Fail, and never ends in an exception.
C3_OutcomeClassificationTotal ==
    (ReplayOver /\ HoldsTheFour) =>
        /\ rpc = "returned"
        /\ raised = None
        /\ outcome \in Outcomes

\* C4: the outcome is Fail exactly when no output file exists after the
\* tool call, Conflict exactly when it exists and the exit code is not
\* zero, Success exactly when it exists and the exit code is zero.
C4_OutcomeFromFileAndExitCode ==
    (rpc = "returned" \/ raised = "AttributeError") =>
        LET output == merge_file(merge_cmd) \in files
        IN  /\ outcome = "fail" <=> ~output
            /\ outcome = "conflict" <=> (output /\ proc # None /\ returncode # 0)
            /\ outcome = "success" <=> (output /\ proc # None /\ returncode = 0)

\* a tool that wrote its output and exited non-zero was classified
C4_Witness ==
    /\ rpc = "returned"
    /\ wroteOutput
    /\ returncode = 1
    /\ outcome = "conflict"

\* C5, as stated: a replay whose tool did not complete within the timeout
\* has outcome Fail and the timeout as its runtime.
C5_TimeoutIsFailWithTimeoutRuntime ==
    (ReplayOver /\ timed_out /\ HoldsTheFour) =>
        /\ outcome = "fail"
        /\ runtime = MERGE_TIMEOUT

\* C6, as stated: after a replay whose tool exceeded the timeout, no
\* process of the tool's process group is alive.
C6_NoProcessLeftAfterTimeout ==
    (ReplayOver /\ timed_out) => (~toolAlive /\ ~childAlive)

(***************************************************************************)
(* The claims about mining (checked under SpecMine).                        *)
(***************************************************************************)
MiningOver == mpc \in {"returned", "raised", "replayed"}

\* the expected commits of the scenarios mined so far
Mined == {s.expected : s \in Range(merge_scenarios)}

\* a hash of a two-parent commit with one merge base that the non-trivial
\* filter, when on, keeps
Minable(h) ==
    /\ h \in MineCommits
    /\ \/ history[h] = "conflicting"
       \/ history[h] = "trivial" /\ ~non_trivial

\* a two-parent commit with no or several merge bases
Ambiguous(h) == h \in MineCommits /\ history[h] \in {"nobase", "multibase"}

\* C7: called with an explicit list of hashes, extract_merge_scenarios
\* yields scenarios only for hashes of the list, and raises "Missing merge
\* commits" exactly when some hash of the list has no scenario: it is no
\* two-parent commit, it has no or several merge bases, or the non-trivial
\* filter removed it.
C7_ExplicitListMissingIffRaise ==
    (MiningOver /\ merge_commit_shas.given) =>
        /\ Mined \subseteq merge_commit_shas.shas
        /\ \A h \in merge_commit_shas.shas : h \in Mined <=> Minable(h)
        /\ mpc = "raised" <=> \E h \in merge_commit_shas.shas : ~Minable(h)

\* a call with a list naming a commit with several merge bases and a
\* minable one has raised
C7_Witness ==
    /\ mpc = "raised"
    /\ merge_commit_shas.given
    /\ Mined # {}
    /\ \E h \in merge_commit_shas.shas : h # UnknownHash /\ history[h] = "multibase"

\* C8, as stated: a merge commit with no or several merge bases is left out
\* and mining raises no exception because of it: where nothing else is
\* missing, extract_merge_scenarios returns the scenarios of the others.
C8_AmbiguousBaseNeverRaises ==
    (MiningOver /\ \A h \in merge_commit_shas.shas : Minable(h) \/ Ambiguous(h)) =>
        /\ mpc # "raised"
        /\ \A h \in Mined : ~Ambiguous(h)

\* C8, amended: a merge commit with no or several merge bases is never in
\* the output. Without an explicit list no exception is raised and every
\* other candidate's scenario is returned; named in an explicit list, it
\* makes mining raise "Missing merge commits".
C8_AmbiguousBaseExcluded ==
    /\ \A h \in Mined : ~Ambiguous(h)
    /\ (MiningOver /\ ~merge_commit_shas.given) =>
            /\ mpc # "raised"
            /\ Mined = {c \in MineCommits : Minable(c)}
    /\ (MiningOver /\ merge_commit_shas.given
                   /\ \E h \in merge_commit_shas.shas : Ambiguous(h)) =>
            mpc = "raised"

\* mining without a list returned scenarios from a history that holds a
\* commit with several merge bases and one without merge base
C8_Witness ==
    /\ mpc = "returned"
    /\ ~merge_commit_shas.given
    /\ Mined # {}
    /\ \E c, d \in MineCommits : history[c] = "multibase" /\ history[d] = "nobase"

\* C9, as stated: given a list of merge commit hashes, _run_file_merges
\* mines and replays scenarios of listed commits only.
C9_OnlyListedCommitsReplayed ==
    (caller = "_run_file_merges" /\ requested.given /\ MiningOver) =>
        /\ Mined \subseteq requested.shas
        /\ replayed \subseteq requested.shas

\* C10: in every mined scenario the expected commit has exactly two
\* parents, left is the first and right the second, and base is the one
\* merge base of the two.
C10_ScenarioInvariant ==
    \A s \in Range(merge_scenarios) :
        /\ history[s.expected] \in {"trivial", "conflicting"}
        /\ s.left = ParentId(s.expected, 1)
        /\ s.right = ParentId(s.expected, 2)
        /\ s.base = BaseId(s.expected, 1)

\* mining returned two scenarios from a history that also holds a commit
\* with three parents
C10_Witness ==
    /\ mpc = "returned"
    /\ Len(merge_scenarios) = 2
    /\ \E c \in MineCommits : history[c] = "octopus"

(***************************************************************************)
(* The claims about conflicting-file extraction (checked under SpecExtract).*)
(***************************************************************************)
ExtractionOver == xpc = "returned"

\* the trial merge reported a conflict of a type other than content
ReportsNonContentConflict ==
    \E i \in 1..Len(stdout) :
        stdout[i].word = "CONFLICT" /\ stdout[i].type # "content"

\* C11: when the trial merge of a scenario reports a conflict whose type is
\* not content, extract_conflicting_files returns the empty list: no
\* FileMerge is produced for any file of the scenario.
C11_NonContentConflictReturnsEmpty ==
    (ExtractionOver /\ ReportsNonContentConflict) => file_merges = << >>

\* C12: no FileMerge that extract_conflicting_files returns has a base,
\* left, right or expected blob with a conflict marker line.
C12_NoConflictMarkerInFileMerges ==
    ExtractionOver =>
        \A i \in 1..Len(file_merges) : ~has_conflict_marker(file_merges[i])

(***************************************************************************)
(* The claim about merge directories (checked under SpecDirs).              *)
(***************************************************************************)
DirsOver == dpc \in {"returned", "raised"}

\* C13: for any list of file merges create_merge_dirs completes and returns
\* as many pairwise distinct directories as there are file merges, each
\* holding that file merge's own Base, Left, Right and Expected.
C13_OneDistinctDirPerFileMerge ==
    DirsOver =>
        /\ dpc = "returned"
        /\ Len(merge_dirs) = Len(dir_merges)
        /\ \A i, j \in 1..Len(merge_dirs) : merge_dirs[i] = merge_dirs[j] => i = j
        /\ \A i \in 1..Len(merge_dirs) :
              [path |-> merge_dirs[i], holds |-> dir_merges[i]] \in created

(***************************************************************************)
(* The claims about the regression comparison (checked under SpecCmp).      *)
(***************************************************************************)
Compared == cpc \in {"compared", "exited"}
BothNonEmpty == new_data # << >> /\ ref_data # << >>
NewRuntime == mean(new_data, "runtime")
RefRuntime == mean(ref_data, "runtime")
NewSize == mean(new_data, "git_diff_size")
RefSize == mean(ref_data, "git_diff_size")

\* the new mean runtime is more than 1.2 times the reference mean runtime
ExceedsTolerance ==
    NewRuntime.sum * RefRuntime.n * TolDen > TolNum * RefRuntime.sum * NewRuntime.n

\* both mean runtimes are below the floor of 2 time units
BothBelowFloor == below_min_value(NewRuntime) /\ below_min_value(RefRuntime)

\* C14: the regression comparison is reflexive: X.at_least_as_good_as(X)
\* returns true for any set X of MergeEvaluation records.
C14_CompareReflexive ==
    (Compared /\ new_data = ref_data) => as_good = "True"

\* C15: for the runtime metric the new set counts as a regression exactly
\* when its mean runtime is more than 1.2 times the reference mean runtime.
C15_RuntimeRegressionIffOverTolerance ==
    (Compared /\ BothNonEmpty) =>
        (compare("runtime", NewRuntime, RefRuntime) <=> ~ExceedsTolerance)

\* C16: when the new and the reference mean runtime are both below the
\* floor of 2 time units, the runtime comparison counts them as equal (no
\* regression) whatever their ratio.
C16_BelowFloorIsNoRegression ==
    (Compared /\ BothNonEmpty /\ BothBelowFloor) =>
        compare("runtime", NewRuntime, RefRuntime)

\* record i was Success or Conflict in the reference and is Fail in the new set
BecameFail(i) ==
    ref_data[i].outcome \in {"success", "conflict"} /\ new_data[i].outcome = "fail"

\* record i is unchanged, or was Fail in the reference and is not Fail in
\* the new set, with the runtime it had
SameOrFixedFail(i) ==
    \/ new_data[i] = ref_data[i]
    \/ /\ ref_data[i].outcome = "fail"
       /\ new_data[i].outcome # "fail"
       /\ new_data[i].runtime = ref_data[i].runtime

\* C17: a record that was Success or Conflict in the reference and is Fail
\* in the new set makes at_least_as_good_as return false, while a reference
\* Fail that becomes non-Fail does not. (Stated for mean runtimes that are
\* not both below the floor, where the runtime comparison is that of C15.)
C17_BecomingFailIsWorse ==
    (Compared /\ BothNonEmpty /\ Len(new_data) = Len(ref_data) /\ ~BothBelowFloor) =>
        /\ (\E i \in 1..Len(new_data) : BecameFail(i)) => as_good = "False"
        /\ (\A i \in 1..Len(new_data) : SameOrFixedFail(i)) => as_good # "False"

\* no metric regressed: the size metric's new value is lower than or equal
\* to the reference value, and the runtime is within its tolerance
NoMetricRegressed ==
    /\ NewSize.sum * RefSize.n <= RefSize.sum * NewSize.n
    /\ BothBelowFloor \/ ~ExceedsTolerance

\* C18: the merge-compare gate exits with code 0 if and only if no metric
\* regressed, and with a non-zero code as soon as any metric regressed.
C18_GateExitsZeroIffNoRegression ==
    (cpc = "exited" /\ BothNonEmpty) => (exit_code = 0 <=> NoMetricRegressed)

(***************************************************************************)
(* The claims about the evaluation of a merge result (checked under         *)
(* SpecEval).                                                               *)
(***************************************************************************)
Evaluated == epc = "returned"

\* C19: for a merge result with outcome Fail every metric of the resulting
\* MergeEvaluation (conflict count, conflict size, text diff size, AST diff
\* size and the normalized variants) is the sentinel -1.
C19_FailMetricsAreSentinel ==
    (Evaluated /\ ev_outcome = "fail") =>
        /\ evaluation.num_conflicts = -1
        /\ evaluation.conflict_size = -1
        /\ evaluation.git_diff_size = -1
        /\ evaluation.git_diff_size_norm = -1
        /\ evaluation.gumtree_diff_size = -1
        /\ evaluation.gumtree_diff_size_norm = -1

\* C20: for a merge result with outcome Conflict or Success the conflict
\* count is the number of conflict hunks of the replayed file and the
\* conflict size the sum over the hunks of the line counts of their two sides.
C20_ConflictCountAndSize ==
    (Evaluated /\ ev_outcome \in {"conflict", "success"}) =>
        /\ evaluation.num_conflicts = Len(extract_conflicts(replayed_file))
        /\ evaluation.conflict_size = conflict_size_of(extract_conflicts(replayed_file))

\* The conflicted regions of a file, in order: each runs from a start marker
\* line through the end marker line that closes it (to the end of the file
\* when none does).
RECURSIVE conflict_regions(_)
conflict_regions(lines) ==
    IF lines = << >> THEN << >>
    ELSE IF line_startswith(Head(lines), START_CONFLICT)
         THEN LET left == takewhile_not(MID_CONFLICT, Tail(lines))
                  right == takewhile_not(END_CONFLICT, left.rest)
              IN  <<SubSeq(lines, 1, Len(lines) - Len(right.rest))>>
                      \o conflict_regions(right.rest)
         ELSE conflict_regions(Tail(lines))

\* C21: conflict-hunk extraction round-trips: re-serializing a hunk that
\* extract_conflicts extracted, with its markers, reproduces exactly the
\* lines of the conflicted region it was extracted from.
C21_ConflictRoundTrip ==
    (Evaluated /\ ev_outcome = "success") =>
        \A k \in 1..Len(extract_conflicts(replayed_file)) :
            pretty_print_conflict(extract_conflicts(replayed_file)[k])
                = conflict_regions(replayed_file)[k]

(***************************************************************************)
(* The claims about mining twice (checked under SpecRemine).                *)
(***************************************************************************)
\* the calls are over
MinedTwice == Len(r_results) = NCalls /\ r_pc = "idle"

\* C22: mining is idempotent: calls of extract_merge_scenarios in a row,
\* with the same filters (the non-trivial filter and its trial merges
\* included), come to the same list of scenarios, and a later call returns
\* whenever the first does: what a call changes in the repository (HEAD
\* detached, untracked files removed, the attributes file removed) is
\* nothing the next call reads.
C22_MiningIdempotent ==
    \A i, j \in 1..Len(r_results) :
        /\ r_results[i].returned <=> r_results[j].returned
        /\ r_results[i].scenarios = r_results[j].scenarios

\* two calls with the non-trivial filter returned a scenario each, found by
\* a trial merge
C22_Witness ==
    /\ MinedTwice
    /\ r_non_trivial
    /\ r_results[1].returned
    /\ r_results[1].scenarios # << >>
    /\ r_results[NCalls].scenarios # << >>
    /\ r_results[NCalls].returned

(***************************************************************************)
(* The claims about the MPI run (checked under SpecMpi and SpecMpiLive).    *)
(***************************************************************************)
\* master has left its sending loop
MasterHasSent == master_pc \in {"recv", "write", "written"}

\* the lists master sent, one after the other
RECURSIVE SentInOrder(_)
SentInOrder(k) == IF k = 0 THEN << >> ELSE SentInOrder(k - 1) \o sent[k][2]

\* the workers whose range holds the directory
ReceiversOf(dir) ==
    {k \in 1..Len(sent) : \E j \in 1..Len(sent[k][2]) : sent[k][2][j] = dir}

\* C23: with at least one worker, master sends every worker exactly one
\* contiguous range of merge_dirs; the ranges are pairwise disjoint and
\* together are the whole list in order, so every merge directory goes to
\* exactly one worker.
C23_RangesPartitionTheList ==
    (MasterHasSent /\ NUM_WORKERS >= 1) =>
        /\ Len(sent) = NUM_WORKERS
        /\ \A k \in 1..Len(sent) :
              /\ sent[k][1] = k
              /\ \E a \in 1..(Len(mpi_merge_dirs) + 1) :
                    sent[k][2] = SubSeq(mpi_merge_dirs, a, a + Len(sent[k][2]) - 1)
        /\ SentInOrder(Len(sent)) = mpi_merge_dirs
        /\ \A d \in 1..Len(mpi_merge_dirs) :
              Cardinality(ReceiversOf(mpi_merge_dirs[d])) = 1

\* master has sent ranges to several workers, of a list they do not divide
C23_Witness ==
    /\ MasterHasSent
    /\ NUM_WORKERS >= 2
    /\ Len(mpi_merge_dirs) % NUM_WORKERS # 0
    /\ Len(mpi_merge_dirs) > NUM_WORKERS

\* C24: the ranges are near-equal: the sizes of the ranges of any two
\* workers differ by at most one.
C24_RangeSizesNearEqual ==
    MasterHasSent =>
        \A k, l \in 1..Len(sent) : Len(sent[k][2]) - Len(sent[l][2]) <= 1

\* the (merge directory, merge command) pairs
DirCommandPairs ==
    {<<mpi_merge_dirs[d], MpiMergeCommands[c]>> :
        d \in 1..Len(mpi_merge_dirs), c \in 1..Len(MpiMergeCommands)}

\* results.csv is written and holds one row per pair
WrittenOneRowPerPair ==
    /\ master_pc = "written"
    /\ Len(written) = Cardinality(DirCommandPairs)
    /\ {<<written[k][1], written[k][2]>> : k \in 1..Len(written)} = DirCommandPairs

\* C25: the exchange cannot deadlock and completes: with at least one
\* worker, master eventually has a result message from every worker and
\* then writes the concatenated results, one row per (merge directory,
\* merge command) pair.
C25_ExchangeCompletes ==
    (master_pc = "start" /\ NUM_WORKERS >= 1) ~> WrittenOneRowPerPair

(***************************************************************************)
(* The claims about the working tree (checked under SpecTree).              *)
(***************************************************************************)
\* the open blocks that are a trial merge or a checkout-and-build check
ActiveOnTree ==
    {k \in 1..Len(t_open) :
        t_open[k].block \in {"merge_no_commit", "is_buildable", "is_testable"}}

\* the expected revision is checked out and built in run_git_merge's own block
BuildingExpected == t_pc = "expected_built"

\* C26: never two trial merges active on the same working tree: at most
\* one trial merge (merge_no_commit) or checkout-and-build check is open,
\* it was entered with HEAD where the command started (the one before it had
\* exited and restored it), and the expected revision is built only with no
\* trial merge open; this throughout extract_conflicting_files, run_git_merge
\* over all merge drivers (whose results are yielded inside the block) and
\* is_buildable/is_testable.
C26_OneTrialMergeAtATime ==
    /\ Cardinality(ActiveOnTree) <= 1
    /\ \A k \in ActiveOnTree : t_open[k].saved_head = HEAD0
    /\ BuildingExpected => ActiveOnTree = {}
    /\ t_open = << >> => t_head = HEAD0

\* the consumer holds a result of the second merge driver while that
\* driver's trial merge is open
C26_Witness ==
    /\ t_pc = "yielded"
    /\ t_driver = 2
    /\ t_rows >= 1
    /\ Cardinality(ActiveOnTree) = 1

(***************************************************************************)
(* The claims about the per-record comparison (checked under SpecLog).      *)
(***************************************************************************)
LogDiffsOver == l_pc = "returned"

\* both sets hold records for the same (merge directory, merge command) keys
SameKeys == {key_of(e) : e \in l_new} = {key_of(e) : e \in l_ref}

\* the reference record of a key
RefOf(key) == CHOOSE f \in l_ref : key_of(f) = key

\* C27: an Evaluations keeps its records ordered by key, and when both sets
\* hold the same keys log_diffs compares every new record with the
\* reference record of the same merge directory and merge command: for the
\* diff size of every new record there is a log record made against that
\* reference record, at info level when the new size is equal or smaller
\* and at warning level when it is larger.
C27_LogDiffsComparesSameKey ==
    (LogDiffsOver /\ SameKeys) =>
        \A e \in l_new :
            \E k \in 1..Len(l_log) :
                /\ l_log[k].attr_name = "git_diff_size"
                /\ l_log[k].self_eval = e
                /\ l_log[k].ref_eval = RefOf(key_of(e))
                /\ l_log[k].level =
                      IF e.git_diff_size <= RefOf(key_of(e)).git_diff_size
                      THEN "info" ELSE "warning"

(***************************************************************************)
(* The claims about replays that follow one another in a merge directory    *)
(* (checked under SpecReplay).                                              *)
(***************************************************************************)
\* run_individual_file_merge ended in the AssertionError of get_filename
LookupFailed == rpc = "raised" /\ raised = "AssertionError"

\* C28: run_and_evaluate yields one evaluation per (command, directory)
\* pair: the output file and the *_normalized.java copies that replaying
\* and evaluating one command leaves in a directory never prevent a later
\* command from being replayed there, so no replay ends in the
\* AssertionError of the look-up of Base, Left, Right and Expected.
C28_LaterCommandIsReplayed == ~LookupFailed

\* C29: the outcome of a replay reflects that invocation only: a replay
\* whose tool invocation wrote no output file is classified Fail, also when
\* the output file of an earlier replay is still in the directory.
C29_NoOutputIsFail ==
    (rpc = "returned" /\ ~wroteOutput) => outcome = "fail"

(***************************************************************************)
(* The claim about a merge driver that is not configured (checked under     *)
(* Spec).                                                                   *)
(***************************************************************************)
\* a merge_no_commit block with a driver_config whose driver is missing
\* from the gitconfig has exited
ExitedWithoutDriver ==
    /\ pc = "exited"
    /\ kind = "merge_no_commit"
    /\ driver_config
    /\ ~driverOk

\* C30: when the merge driver requested is not configured, the caller of
\* merge_no_commit observes the EnvironmentError of set_merge_driver,
\* raised after HEAD has been restored; clearing the merge driver does not
\* replace it with another error.
C30_CallerSeesEnvironmentError ==
    ExitedWithoutDriver => (observed = "EnvironmentError" /\ restored)

====
